---------------------------- MODULE Spec2Model ----------------------------
(***************************************************************************)
(* Model of the IOP JSON connector: the WebSocket bridge (server.py), the  *)
(* UDP unicast transport (transport/udp_uc.py) and the schema-driven codec *)
(* (message_serializer.py).                                                *)
(***************************************************************************)
EXTENDS Integers, Sequences, FiniteSets, TLC

(***************************************************************************)
(* Bounds of the model.                                                    *)
(***************************************************************************)
MaxFrames == 2      \* WebSocket frames handled in one run
MaxRecv == 1        \* messages received from UDP in one run
MaxQueued == 2      \* messages queued on a socket used on its own
MaxRecvLive == 2    \* the same, where the bridge has one client or none

None == "None"

(***************************************************************************)
(* Python values.  A value carries its dynamic type as the name of its one *)
(* field: [i |-> n] an int, [s |-> chars] a str, [b |-> bytes] a bytes,    *)
(* [o |-> f] an object (SimpleNamespace on encode, dict on decode) with    *)
(* attribute function f, [a |-> items] a list.  Characters and bytes are   *)
(* numbers; a str is the sequence of its character codes.                  *)
(***************************************************************************)
IsInt(v) == "i" \in DOMAIN v
IsStr(v) == "s" \in DOMAIN v
IsBytes(v) == "b" \in DOMAIN v
IsObj(v) == "o" \in DOMAIN v
IsList(v) == "a" \in DOMAIN v
EmptyObj == [o |-> <<>>]

\* hasattr(obj, name) / getattr(obj, name) on a SimpleNamespace
HasAttr(obj, name) == IsObj(obj) /\ name \in DOMAIN obj.o
GetAttr(obj, name) == obj.o[name]
\* d[name] = v on a dict
SetItem(obj, name, v) ==
    [o |-> [k \in (DOMAIN obj.o) \cup {name} |-> IF k = name THEN v ELSE obj.o[k]]]

RECURSIVE Pow2(_)
Pow2(n) == IF n = 0 THEN 1 ELSE 2 * Pow2(n - 1)

RECURSIVE Pow256(_)
Pow256(n) == IF n = 0 THEN 1 ELSE 256 * Pow256(n - 1)

(***************************************************************************)
(* MessageSerializer.JAUS_TYPES, PACK_FORMAT_FROM_JAUS and                 *)
(* UNPACK_FORMAT_FROM_JAUS, restricted to the integer types.  JAUS_TYPES   *)
(* is the width the serializer advances by; the struct format has its own  *)
(* size ('<l' and '<L' are four bytes in standard mode).                   *)
(***************************************************************************)
JAUS_TYPES ==
    [t \in {"byte", "short integer", "integer", "long integer", "unsigned byte",
            "unsigned short integer", "unsigned integer", "unsigned long integer"} |->
        CASE t = "byte" -> 1
          [] t = "short integer" -> 2
          [] t = "integer" -> 4
          [] t = "long integer" -> 8
          [] t = "unsigned byte" -> 1
          [] t = "unsigned short integer" -> 2
          [] t = "unsigned integer" -> 4
          [] t = "unsigned long integer" -> 8]

\* the struct format of a jausType as [size, signed]
PACK_FORMAT_FROM_JAUS ==
    [t \in DOMAIN JAUS_TYPES |->
        CASE t = "byte" -> [size |-> 1, signed |-> TRUE]
          [] t = "short integer" -> [size |-> 2, signed |-> TRUE]
          [] t = "integer" -> [size |-> 4, signed |-> TRUE]
          [] t = "long integer" -> [size |-> 4, signed |-> TRUE]
          [] t = "unsigned byte" -> [size |-> 1, signed |-> FALSE]
          [] t = "unsigned short integer" -> [size |-> 2, signed |-> FALSE]
          [] t = "unsigned integer" -> [size |-> 4, signed |-> FALSE]
          [] t = "unsigned long integer" -> [size |-> 4, signed |-> FALSE]]

UNPACK_FORMAT_FROM_JAUS == PACK_FORMAT_FROM_JAUS

\* the range of numbers a struct format accepts.  The numbers of the model
\* are the signed 32-bit numbers: all of them fit a signed four-byte format,
\* and the non-negative ones an unsigned four-byte format.
FmtFits(fmt, n) ==
    IF fmt.size = 4
    THEN fmt.signed \/ n >= 0
    ELSE IF fmt.signed
    THEN n >= 0 - Pow256(fmt.size - 1) * 128 /\ n <= Pow256(fmt.size - 1) * 128 - 1
    ELSE n >= 0 /\ n <= Pow256(fmt.size) - 1

\* little-endian two's complement bytes of n
LEBytes(n, size) == [k \in 1..size |-> (n \div Pow256(k - 1)) % 256]

\* struct.pack(fmt, v) for an integer format: struct.error unless v is an
\* int within the range of the format
StructPack(fmt, v) ==
    IF IsInt(v) /\ FmtFits(fmt, v.i)
    THEN [err |-> FALSE, bytes |-> LEBytes(v.i, fmt.size)]
    ELSE [err |-> TRUE, bytes |-> <<>>]

\* struct.pack(f'{n}s', v): struct.error unless v is a bytes object; the
\* bytes are cut or NUL-padded to n
StructPackS(n, v) ==
    IF IsBytes(v)
    THEN [err |-> FALSE,
          bytes |-> [k \in 1..n |-> IF k <= Len(v.b) THEN v.b[k] ELSE 0]]
    ELSE [err |-> TRUE, bytes |-> <<>>]

\* payload[start:stop] of Python: a negative index counts from the end and
\* both are cut to the payload
SliceIndex(payload, x) ==
    IF x < 0 THEN (IF Len(payload) + x < 0 THEN 0 ELSE Len(payload) + x)
    ELSE IF x > Len(payload) THEN Len(payload) ELSE x
Slice(payload, start, stop) ==
    IF SliceIndex(payload, start) >= SliceIndex(payload, stop) THEN <<>>
    ELSE SubSeq(payload, SliceIndex(payload, start) + 1, SliceIndex(payload, stop))

RECURSIVE LEValue(_, _)
LEValue(bytes, k) ==
    IF k > Len(bytes) THEN 0 ELSE bytes[k] + 256 * LEValue(bytes, k + 1)

\* struct.unpack(fmt, buf): struct.error unless buf has the size of the format
StructUnpack(fmt, buf) ==
    IF Len(buf) # fmt.size
    THEN [err |-> TRUE, value |-> 0]
    ELSE [err |-> FALSE,
          value |-> IF fmt.signed /\ buf[fmt.size] >= 128
                    THEN LEValue(SubSeq(buf, 1, fmt.size - 1), 1)
                         + (buf[fmt.size] - 256) * Pow256(fmt.size - 1)
                    ELSE LEValue(buf, 1)]

\* int(round(num / den, 0)) of Python 3: round half to even (den > 0)
RoundDiv(num, den) ==
    LET q == num \div den
        r == num % den
    IN IF 2 * r < den THEN q
       ELSE IF 2 * r > den THEN q + 1
       ELSE IF q % 2 = 0 THEN q ELSE q + 1

\* hexadecimal digits as character codes ('0' is 48, 'a' is 97)
HexDigit(d) == IF d < 10 THEN 48 + d ELSE 87 + d
HexDigitVal(c) == IF c >= 97 THEN c - 87 ELSE IF c >= 65 THEN c - 55 ELSE c - 48
IsHexDigit(c) == (c >= 48 /\ c <= 57) \/ (c >= 97 /\ c <= 102) \/ (c >= 65 /\ c <= 70)

\* f"{n:x}" for n >= 0
RECURSIVE FormatHex(_)
FormatHex(n) ==
    IF n < 16 THEN <<HexDigit(n)>> ELSE Append(FormatHex(n \div 16), HexDigit(n % 16))

\* str.zfill(width)
RECURSIVE ZFill(_, _)
ZFill(str, width) == IF Len(str) >= width THEN str ELSE ZFill(<<48>> \o str, width)

\* int(str, 16)
RECURSIVE HexValue(_)
HexValue(str) ==
    IF str = <<>> THEN 0
    ELSE 16 * HexValue(SubSeq(str, 1, Len(str) - 1)) + HexDigitVal(str[Len(str)])

IsHex(str) == str # <<>> /\ \A k \in 1..Len(str) : IsHexDigit(str[k])

\* str.rstrip('\x00')
RECURSIVE RStripNul(_)
RStripNul(str) ==
    IF str # <<>> /\ str[Len(str)] = 0 THEN RStripNul(SubSeq(str, 1, Len(str) - 1)) ELSE str

(***************************************************************************)
(* Schemas.  A schema node (a message schema, a property, an array item)   *)
(* is a record; `has' is the set of attributes the JSON document gave it   *)
(* (what hasattr answers), the other fields hold the attributes' values.   *)
(* `properties' is the ordered mapping of an object as a sequence of nodes *)
(* carrying their names.                                                   *)
(***************************************************************************)
Node ==
    [name |-> "", type |-> "object", has |-> {}, title |-> "", messageId |-> <<>>,
     jausType |-> "", const |-> <<>>, from |-> 0, to |-> 0, bias |-> 0,
     scaleFactor |-> 1, bitField |-> "", fieldFormat |-> "", valueSet |-> <<>>,
     minLength |-> 0, maxLength |-> 0, isVariant |-> FALSE, minItems |-> 0,
     maxItems |-> 0, anyOf |-> <<>>, properties |-> <<>>, required |-> {}]

Has(node, attr) == attr \in node.has

\* schema.properties.__dict__: the property names in declaration order
PropNames(schema) == [k \in 1..Len(schema.properties) |-> schema.properties[k].name]
HasProp(schema, propertyName) ==
    Has(schema, "properties")
    /\ \E k \in 1..Len(schema.properties) : schema.properties[k].name = propertyName
\* getattr(schema.properties, propertyName)
PropOf(schema, propertyName) ==
    schema.properties[CHOOSE k \in 1..Len(schema.properties) :
                          schema.properties[k].name = propertyName]

\* Message.appendPayload: the payload is an append-only byte buffer
AppendPayload(payload, data) == payload \o data

\* value >> n of Python
ShiftRight(value, n) == value \div Pow2(n)

(***************************************************************************)
(* MessageSerializer._generatePresenceVector                               *)
(***************************************************************************)
RECURSIVE GenPVLoop(_, _, _, _, _)
GenPVLoop(jsonObj, schema, k, presenceVector, presenceIndex) ==
    IF k > Len(schema.properties) THEN presenceVector
    ELSE LET propertyName == schema.properties[k].name
         IN IF propertyName = "presenceVector"
            THEN GenPVLoop(jsonObj, schema, k + 1, presenceVector, 1)
            ELSE IF propertyName \notin schema.required
            THEN GenPVLoop(jsonObj, schema, k + 1,
                           IF HasAttr(jsonObj, propertyName)
                           THEN presenceVector + presenceIndex ELSE presenceVector,
                           presenceIndex * 2)
            ELSE GenPVLoop(jsonObj, schema, k + 1, presenceVector, presenceIndex)

GeneratePresenceVector(jsonObj, schema) == GenPVLoop(jsonObj, schema, 1, 0, 0)

(***************************************************************************)
(* The schemas of the model: a bounded registry built from the attributes  *)
(* the serializer recognises.  Strings are written as character codes.     *)
(***************************************************************************)
ObjectNode(name, properties, required) ==
    [Node EXCEPT !.name = name, !.type = "object", !.has = {"properties", "required"},
                 !.properties = properties, !.required = required]
MessageSchema(title, messageId, properties, required) ==
    [ObjectNode("", properties, required) EXCEPT
        !.title = title, !.messageId = messageId,
        !.has = {"properties", "required", "title", "messageId"}]
NumberNode(name, jausType) ==
    [Node EXCEPT !.name = name, !.type = "number", !.has = {"jausType"},
                 !.jausType = jausType]
ScaledNode(name, jausType, bias, scaleFactor) ==
    [NumberNode(name, jausType) EXCEPT !.has = {"jausType", "scaleRange"},
                 !.bias = bias, !.scaleFactor = scaleFactor]
BitNumberNode(name, jausType, from, to) ==
    [NumberNode(name, jausType) EXCEPT !.has = {"jausType", "bitRange"},
                 !.from = from, !.to = to]
BitFieldNode(name, bitField, properties, required) ==
    [ObjectNode(name, properties, required) EXCEPT
        !.has = {"properties", "required", "bitField"}, !.bitField = bitField]
MessageIDNode(const) ==
    [Node EXCEPT !.name = "MessageID", !.type = "string", !.has = {"jausType", "const"},
                 !.jausType = "unsigned short integer", !.const = const]
EnumNode(name, jausType, valueSet) ==
    [Node EXCEPT !.name = name, !.type = "string",
                 !.has = {"jausType", "enum", "valueSet"},
                 !.jausType = jausType, !.valueSet = valueSet]
StringNode(name, jausType, minLength, maxLength) ==
    [Node EXCEPT !.name = name, !.type = "string",
                 !.has = {"jausType", "minLength", "maxLength"},
                 !.jausType = jausType, !.minLength = minLength, !.maxLength = maxLength]
ListNode(name, jausType, item) ==
    [Node EXCEPT !.name = name, !.type = "array",
                 !.has = {"jausType", "isVariant", "items"},
                 !.jausType = jausType, !.isVariant = FALSE, !.anyOf = <<item>>]
VariantNode(name, jausType, alternatives) ==
    [Node EXCEPT !.name = name, !.type = "array",
                 !.has = {"jausType", "isVariant", "items"},
                 !.jausType = jausType, !.isVariant = TRUE, !.anyOf = alternatives]
JausMessageNode(name, jausType) ==
    [Node EXCEPT !.name = name, !.type = "object",
                 !.has = {"jausType", "fieldFormat"},
                 !.jausType = jausType, !.fieldFormat = "JAUS MESSAGE"]
ValueEnum(enumIndex, enumConst) ==
    [hasValueEnum |-> TRUE, enumIndex |-> enumIndex, enumConst |-> enumConst]

\* message ids, as the registry keys (4 lowercase hex characters)
Id2b00 == <<50, 98, 48, 48>>
Id4b00 == <<52, 98, 48, 48>>
Id4402 == <<52, 52, 48, 50>>
Id0d01 == <<48, 100, 48, 49>>
Id0e00 == <<48, 101, 48, 48>>
Id3a00 == <<51, 97, 48, 48>>
Id3a01 == <<51, 97, 48, 49>>
IdNone == <<102, 102, 102, 102>>      \* an id no schema declares

\* enumeration constants
StrSYS == <<83, 89, 83>>
StrSUB == <<83, 85, 66>>
StrVEH == <<86, 69, 72>>
StrOCU == <<79, 67, 85>>
StrTV == <<84, 86>>

HeaderRec(messageId) == ObjectNode("HeaderRec", <<MessageIDNode(messageId)>>, {"MessageID"})

QueryTypeSet == <<ValueEnum(1, StrSYS), ValueEnum(2, StrSUB)>>
TypeSet == <<ValueEnum(10001, StrVEH), ValueEnum(20001, StrOCU)>>

\* QueryIdentification: a header and one enumeration
QueryIdentification ==
    MessageSchema("QueryIdentification", Id2b00,
        <<HeaderRec(Id2b00),
          ObjectNode("QueryIdentificationRec",
                     <<EnumNode("QueryType", "unsigned byte", QueryTypeSet)>>,
                     {"QueryType"})>>,
        {"HeaderRec", "QueryIdentificationRec"})

\* ReportIdentification: two enumerations and a variable-length string
ReportIdentification ==
    MessageSchema("ReportIdentification", Id4b00,
        <<HeaderRec(Id4b00),
          ObjectNode("ReportIdentificationRec",
                     <<EnumNode("QueryType", "unsigned byte", QueryTypeSet),
                       EnumNode("Type", "unsigned short integer", TypeSet),
                       StringNode("Identification", "unsigned byte", 0, 255)>>,
                     {"QueryType", "Type", "Identification"})>>,
        {"HeaderRec", "ReportIdentificationRec"})

\* ReportPose: a presence vector, an optional scaled number, an optional
\* enumeration, an optional plain number and a required number
ReportPose ==
    MessageSchema("ReportPose", Id4402,
        <<ObjectNode("PoseRec",
                     <<NumberNode("presenceVector", "unsigned byte"),
                       ScaledNode("X", "unsigned short integer", 10, 2),
                       EnumNode("Mode", "unsigned byte", QueryTypeSet),
                       NumberNode("Yaw", "byte"),
                       NumberNode("TimeStamp", "unsigned byte")>>,
                     {"TimeStamp"})>>,
        {"PoseRec"})

\* two schemas that declare the same message id
SetWide ==
    MessageSchema("SetWide", Id0d01,
        <<ObjectNode("Rec", <<NumberNode("Wide", "unsigned short integer")>>, {"Wide"})>>,
        {"Rec"})
SetPair ==
    MessageSchema("SetPair", Id0d01,
        <<ObjectNode("Rec", <<NumberNode("Lo", "unsigned byte"),
                               NumberNode("Hi", "unsigned byte")>>, {"Lo", "Hi"})>>,
        {"Rec"})

\* SetBits: a bit field of one byte with the members Lo (bits 0..3) and Hi
\* (bits 4..5)
SetBits ==
    MessageSchema("SetBits", Id0e00,
        <<ObjectNode("Rec",
                     <<BitFieldNode("Bits", "unsigned byte",
                                    <<BitNumberNode("Lo", "unsigned byte", 0, 3),
                                      BitNumberNode("Hi", "unsigned byte", 4, 5)>>,
                                    {"Lo", "Hi"})>>,
                     {"Bits"})>>,
        {"Rec"})

\* one number of each integer jausType, in a message of its own
NumberTypes ==
    <<"byte", "unsigned byte", "short integer", "unsigned short integer",
      "integer", "unsigned integer", "long integer", "unsigned long integer">>
NumberId(k) == <<49, 48, 48, 48 + k>>
NumberSchema(k) ==
    MessageSchema("SetNumber", NumberId(k),
        <<ObjectNode("Rec", <<NumberNode("Value", NumberTypes[k])>>, {"Value"})>>,
        {"Rec"})

\* a message that carries another message: a header and a nested JAUS
\* MESSAGE whose size is one byte; in WrappedTail a number is declared after it
Wrapped ==
    MessageSchema("Wrapped", Id3a00,
        <<HeaderRec(Id3a00),
          ObjectNode("Rec", <<JausMessageNode("Msg", "unsigned byte")>>, {"Msg"})>>,
        {"HeaderRec", "Rec"})
WrappedTail ==
    MessageSchema("WrappedTail", Id3a01,
        <<HeaderRec(Id3a01),
          ObjectNode("Rec", <<JausMessageNode("Msg", "unsigned byte"),
                               NumberNode("Tail", "unsigned byte")>>,
                     {"Msg", "Tail"})>>,
        {"HeaderRec", "Rec"})

(***************************************************************************)
(* schemes.JSON_SCHEMES after init_schemes: message id -> list of schemas. *)
(***************************************************************************)
SchemaIds ==
    {Id2b00, Id4b00, Id4402, Id0d01, Id0e00, Id3a00, Id3a01}
    \cup {NumberId(k) : k \in 1..Len(NumberTypes)}
JSON_SCHEMES ==
    [id \in SchemaIds |->
        IF id = Id2b00 THEN <<QueryIdentification>>
        ELSE IF id = Id4b00 THEN <<ReportIdentification>>
        ELSE IF id = Id4402 THEN <<ReportPose>>
        ELSE IF id = Id0d01 THEN <<SetWide, SetPair>>
        ELSE IF id = Id0e00 THEN <<SetBits>>
        ELSE IF id = Id3a00 THEN <<Wrapped>>
        ELSE IF id = Id3a01 THEN <<WrappedTail>>
        ELSE <<NumberSchema(CHOOSE k \in 1..Len(NumberTypes) : id = NumberId(k))>>]

(***************************************************************************)
(* MessageSerializer._addProperties.  The walk carries the local variables *)
(* of the Python function as the record st: the payload of `message', the  *)
(* accumulator bitFieldValue, the variable `schema' (the nested-payload    *)
(* loop rebinds it), the variable arrayObj (unbound until an array         *)
(* property of the value is read) and err, set when an exception leaves    *)
(* the function.  The payload keeps what was appended before an exception. *)
(***************************************************************************)
Unbound == [unbound |-> TRUE]
Raise(st) == [st EXCEPT !.err = TRUE]
Emit(st, packed) ==
    IF packed.err THEN Raise(st)
    ELSE [st EXCEPT !.payload = AppendPayload(st.payload, packed.bytes)]

\* struct.pack(self._getPackFormat(jausType), value)
PackAs(jausType, value) ==
    IF jausType \in DOMAIN PACK_FORMAT_FROM_JAUS
    THEN StructPack(PACK_FORMAT_FROM_JAUS[jausType], value)
    ELSE [err |-> TRUE, bytes |-> <<>>]

\* lines 188-219: a property of type number
AddNumber(jsonObj, propertyName, property, st) ==
    IF propertyName = "presenceVector"
    THEN IF ~Has(st.schema, "required") \/ ~Has(property, "jausType")
         THEN Raise(st)
         ELSE Emit(st, PackAs(property.jausType,
                              [i |-> GeneratePresenceVector(jsonObj, st.schema)]))
    ELSE IF ~Has(property, "jausType") \/ property.jausType \notin DOMAIN JAUS_TYPES
    THEN Raise(st)
    ELSE IF ~HasAttr(jsonObj, propertyName) /\ ~Has(st.schema, "required")
    THEN Raise(st)
    ELSE LET present == HasAttr(jsonObj, propertyName)
             skipped == ~present /\ propertyName \notin st.schema.required
             value == IF present THEN GetAttr(jsonObj, propertyName) ELSE [i |-> 0]
             scaled == IF Has(property, "scaleRange")
                       THEN [i |-> RoundDiv(value.i - property.bias, property.scaleFactor)]
                       ELSE value
             Accumulate(st1) ==
                 IF st1.err \/ ~Has(property, "bitRange") \/ ~present THEN st1
                 ELSE IF ~IsInt(value) THEN Raise(st1)
                 ELSE [st1 EXCEPT !.bf = st1.bf + ShiftRight(value.i, property.from)]
         IN Accumulate(IF skipped THEN st
                       ELSE IF Has(property, "scaleRange") /\ ~IsInt(value) THEN Raise(st)
                       ELSE Emit(st, PackAs(property.jausType, scaled)))

\* lines 231-240: the index of an enumeration value; the last matching
\* element of the value set decides
RECURSIVE EnumIndexOf(_, _, _, _)
EnumIndexOf(valueSet, valueStr, k, value) ==
    IF k > Len(valueSet) THEN value
    ELSE EnumIndexOf(valueSet, valueStr, k + 1,
                     IF valueSet[k].hasValueEnum /\ IsStr(valueStr)
                        /\ valueSet[k].enumConst = valueStr.s
                     THEN valueSet[k].enumIndex ELSE value)

\* lines 220-271: a property of type string
AddString(jsonObj, propertyName, property, st) ==
    IF propertyName = "MessageID" /\ Has(property, "const")
    THEN IF ~IsHex(property.const) \/ ~Has(property, "jausType") THEN Raise(st)
         ELSE Emit(st, PackAs(property.jausType, [i |-> HexValue(property.const)]))
    ELSE IF Has(property, "enum") /\ Has(property, "valueSet")
    THEN LET valueStr == IF HasAttr(jsonObj, propertyName)
                         THEN GetAttr(jsonObj, propertyName) ELSE [s |-> <<>>]
             value == IF ~HasAttr(jsonObj, propertyName) THEN 0
                      ELSE IF IsInt(valueStr) THEN valueStr.i
                      ELSE EnumIndexOf(property.valueSet, valueStr, 1, 0)
         IN IF Has(property, "bitRange")
            THEN [st EXCEPT !.bf = st.bf + ShiftRight(value, property.from)]
            ELSE IF ~Has(property, "jausType") THEN Raise(st)
            ELSE Emit(st, PackAs(property.jausType, [i |-> value]))
    ELSE IF Has(property, "minLength") /\ Has(property, "maxLength")
    THEN LET valueStr == IF HasAttr(jsonObj, propertyName)
                         THEN GetAttr(jsonObj, propertyName) ELSE [s |-> <<>>]
         IN IF property.minLength = property.maxLength
            THEN \* valueStr.ljust(strLength, '\x00'): a str stays a str
                 IF ~IsStr(valueStr) THEN Raise(st)
                 ELSE IF property.maxLength > 0
                 THEN Emit(st, StructPackS(property.maxLength, valueStr))
                 ELSE st
            ELSE IF ~(IsStr(valueStr) \/ IsBytes(valueStr) \/ IsList(valueStr))
                    \/ ~Has(property, "jausType")
            THEN Raise(st)
            ELSE LET len == IF IsStr(valueStr) THEN Len(valueStr.s)
                            ELSE IF IsBytes(valueStr) THEN Len(valueStr.b)
                            ELSE Len(valueStr.a)
                     strLength == IF len > property.maxLength
                                  THEN property.maxLength ELSE len
                     Content(st1) ==
                         IF st1.err \/ strLength <= 0 THEN st1
                         ELSE Emit(st1, StructPackS(strLength, valueStr))
                 IN Content(Emit(st, PackAs(property.jausType,
                                            [i |-> property.maxLength])))
    ELSE st

RECURSIVE AddProperties(_, _, _)
RECURSIVE AddLoop(_, _, _, _)
RECURSIVE AddStep(_, _, _)
RECURSIVE AddObject(_, _, _, _)
RECURSIVE AddPayloadLoop(_, _, _, _, _)
RECURSIVE AddArray(_, _, _, _)
RECURSIVE AddItems(_, _, _, _)

\* lines 155-168: every candidate schema of the nested payload is tried;
\* one that encodes appends the size and the payload, one that raises is
\* skipped; the loop variable is the function's `schema'
AddPayloadLoop(jsonAttr, property, schemas, j, st) ==
    IF j > Len(schemas) THEN st
    ELSE LET st0 == [st EXCEPT !.schema = schemas[j]]
             Sized(inner, sizeData) ==
                 IF ~Has(property, "jausType") THEN st0
                 ELSE IF sizeData.err THEN st0
                 ELSE [st0 EXCEPT !.payload =
                         AppendPayload(AppendPayload(st0.payload, sizeData.bytes),
                                       inner.payload)]
             Tried(inner) ==
                 IF inner.err THEN st0
                 ELSE Sized(inner, PackAs(property.jausType, [i |-> Len(inner.payload)]))
         IN AddPayloadLoop(jsonAttr, property, schemas, j + 1,
                IF ~HasAttr(jsonAttr, "payload") THEN st0
                ELSE Tried(AddProperties(GetAttr(jsonAttr, "payload"), <<>>, schemas[j])))

\* lines 143-186: a property of type object
AddObject(jsonObj, propertyName, property, st) ==
    IF Has(property, "fieldFormat")
    THEN IF property.fieldFormat # "JAUS MESSAGE" THEN Raise(st)
         ELSE IF ~HasAttr(jsonObj, propertyName) THEN Raise(st)
         ELSE LET jsonAttr == GetAttr(jsonObj, propertyName)
              IN IF ~HasAttr(jsonAttr, "payloadMessageId") THEN Raise(st)
                 ELSE LET key == GetAttr(jsonAttr, "payloadMessageId")
                      IN IF ~IsStr(key) THEN Raise(st)
                         ELSE IF key.s \notin DOMAIN JSON_SCHEMES THEN Raise(st)
                         ELSE AddPayloadLoop(jsonAttr, property, JSON_SCHEMES[key.s], 1, st)
    ELSE IF ~HasAttr(jsonObj, propertyName) THEN Raise(st)
    ELSE LET Walked(sub) ==
                 LET st1 == [st EXCEPT !.payload = sub.payload, !.err = sub.err]
                 IN IF sub.err \/ ~Has(property, "bitField") THEN st1
                    ELSE Emit(st1, PackAs(property.bitField, [i |-> sub.bf]))
         IN Walked(AddProperties(GetAttr(jsonObj, propertyName), st.payload, property))

\* lines 281-284: the elements of a list, each against items.anyOf[0]
AddItems(arrayObj, property, k, st) ==
    IF st.err \/ k > Len(arrayObj.a) THEN st
    ELSE IF ~Has(property, "items") \/ Len(property.anyOf) = 0 THEN Raise(st)
    ELSE LET Walked(sub) == [st EXCEPT !.payload = sub.payload, !.err = sub.err]
         IN AddItems(arrayObj, property, k + 1,
                     Walked(AddProperties(arrayObj.a[k], st.payload, property.anyOf[1])))

\* lines 272-284: a property of type array (a value that is no list is
\* taken to raise)
AddArray(jsonObj, propertyName, property, st) ==
    LET Read(st0) ==
            IF ~Has(property, "isVariant") THEN Raise(st0)
            ELSE IF property.isVariant THEN st0
            ELSE IF ~Has(property, "jausType") THEN Raise(st0)
            ELSE IF ~IsList(st0.arrayObj) THEN Raise(st0)
            ELSE AddItems(st0.arrayObj, property, 1,
                          Emit(st0, PackAs(property.jausType, [i |-> Len(st0.arrayObj.a)])))
    IN Read(IF HasAttr(jsonObj, propertyName)
            THEN [st EXCEPT !.arrayObj = GetAttr(jsonObj, propertyName)]
            ELSE st)

\* lines 141-287: one turn of the loop over the property names
AddStep(jsonObj, propertyName, st) ==
    IF ~HasProp(st.schema, propertyName) THEN Raise(st)
    ELSE LET Typed(property) ==
                 CASE property.type = "object" -> AddObject(jsonObj, propertyName, property, st)
                   [] property.type = "number" -> AddNumber(jsonObj, propertyName, property, st)
                   [] property.type = "string" -> AddString(jsonObj, propertyName, property, st)
                   [] property.type = "array" -> AddArray(jsonObj, propertyName, property, st)
                   [] OTHER -> st
         IN Typed(PropOf(st.schema, propertyName))

AddLoop(jsonObj, names, k, st) ==
    IF st.err \/ k > Len(names) THEN st
    ELSE AddLoop(jsonObj, names, k + 1, AddStep(jsonObj, names[k], st))

\* _addProperties(jsonObj, message, schema): [err, payload, bf], the
\* exception flag, the payload of message afterwards and the return value
AddProperties(jsonObj, payload, schema) ==
    IF ~Has(schema, "properties")
    THEN [err |-> TRUE, payload |-> payload, bf |-> 0]
    ELSE LET Result(st) == [err |-> st.err, payload |-> st.payload, bf |-> st.bf]
         IN Result(AddLoop(jsonObj, PropNames(schema), 1,
                           [err |-> FALSE, payload |-> payload, bf |-> 0,
                            schema |-> schema, arrayObj |-> Unbound]))

(***************************************************************************)
(* MessageSerializer._getProperties.  st holds the local variables: the    *)
(* dict jsonObj being filled (obj), index (inone: it is None, the result   *)
(* of a nested walk that returned without a value), presenceVector (pvSet: *)
(* it is not None), presenceIndex, `schema', and how the function ended:   *)
(* err by an exception, ret by the bare return of the nested-payload loop. *)
(***************************************************************************)
\* struct.unpack(self._getUnPackFormat(jausType), payload[index:index+typeSize])
UnpackAt(jausType, payload, index) ==
    StructUnpack(UNPACK_FORMAT_FROM_JAUS[jausType],
                 Slice(payload, index, index + JAUS_TYPES[jausType]))

\* the bits [from..to] of value, shifted down (lines 369-373, 402-406)
RECURSIVE BitRangeSum(_, _, _)
BitRangeSum(value, bit, to) ==
    IF bit > to THEN 0
    ELSE ((value \div Pow2(bit)) % 2) * Pow2(bit) + BitRangeSum(value, bit + 1, to)
BitRangeValue(value, from, to) == ShiftRight(BitRangeSum(value, from, to), from)

\* bytes.decode(): text of 7-bit characters; any other byte is taken to raise
Decodable(bytes) == \A k \in 1..Len(bytes) : bytes[k] < 128

\* lines 358-382: a property of type number
GetNumber(propertyName, property, payload, st) ==
    IF ~Has(property, "jausType") \/ property.jausType \notin DOMAIN JAUS_TYPES \/ st.inone
    THEN Raise(st)
    ELSE LET typeSize == JAUS_TYPES[property.jausType]
             Stored(value) ==
                 IF Has(property, "bitRange")
                 THEN [st EXCEPT !.obj = SetItem(st.obj, propertyName,
                             [i |-> BitRangeValue(value, property.from, property.to)])]
                 ELSE [st EXCEPT !.obj = SetItem(st.obj, propertyName, [i |-> value]),
                                 !.index = st.index + typeSize,
                                 !.pvSet = st.pvSet \/ propertyName = "presenceVector",
                                 !.pv = IF propertyName = "presenceVector" THEN value ELSE st.pv,
                                 !.pidx = IF propertyName = "presenceVector" THEN 1 ELSE st.pidx]
             Read(raw) ==
                 IF raw.err THEN Raise(st)
                 ELSE Stored(IF Has(property, "scaleRange")
                             THEN raw.value * property.scaleFactor + property.bias
                             ELSE raw.value)
         IN Read(UnpackAt(property.jausType, payload, st.index))

\* lines 409-411: the constant of an enumeration index; the last matching
\* element decides, none leaves the key unset
RECURSIVE EnumConstOf(_, _, _, _)
EnumConstOf(valueSet, index, k, obj) ==
    IF k > Len(valueSet) THEN obj
    ELSE EnumConstOf(valueSet, index, k + 1,
                     IF valueSet[k].hasValueEnum /\ valueSet[k].enumIndex = index
                     THEN [found |-> TRUE, const |-> valueSet[k].enumConst] ELSE obj)

\* lines 383-416: a property of type string
GetString(propertyName, property, payload, st) ==
    IF Has(property, "minLength") /\ Has(property, "maxLength")
       /\ property.minLength = property.maxLength
    THEN IF st.inone THEN Raise(st)
         ELSE LET Decoded(value) ==
                      IF ~Decodable(value)
                      THEN Raise([st EXCEPT !.index = st.index + property.maxLength])
                      ELSE [st EXCEPT !.index = st.index + property.maxLength,
                                      !.obj = SetItem(st.obj, propertyName,
                                                      [s |-> RStripNul(value)])]
              IN Decoded(Slice(payload, st.index, st.index + property.maxLength))
    ELSE IF ~Has(property, "jausType") \/ property.jausType \notin DOMAIN JAUS_TYPES \/ st.inone
    THEN Raise(st)
    ELSE LET typeSize == JAUS_TYPES[property.jausType]
             st1 == [st EXCEPT !.index = st.index + typeSize]
             Named(st2, hit) ==
                 IF hit.found
                 THEN [st2 EXCEPT !.obj = SetItem(st.obj, propertyName, [s |-> hit.const])]
                 ELSE st2
             Decoded(st2, value) ==
                 IF ~Decodable(value) THEN Raise(st2)
                 ELSE [st2 EXCEPT !.obj = SetItem(st.obj, propertyName, [s |-> value])]
             Read(raw, strLength) ==
                 IF raw.err THEN Raise(st)
                 ELSE IF propertyName = "MessageID" /\ Has(property, "const")
                 THEN IF strLength < 0 THEN Raise(st1)
                      ELSE [st1 EXCEPT !.obj = SetItem(st.obj, propertyName,
                                                       [s |-> FormatHex(strLength)])]
                 ELSE IF Has(property, "enum") /\ Has(property, "valueSet")
                 THEN Named(IF Has(property, "bitRange") THEN st ELSE st1,
                            EnumConstOf(property.valueSet,
                                        IF Has(property, "bitRange")
                                        THEN BitRangeValue(strLength, property.from,
                                                           property.to)
                                        ELSE strLength,
                                        1, [found |-> FALSE, const |-> <<>>]))
                 ELSE Decoded([st1 EXCEPT !.index = st1.index + strLength],
                              Slice(payload, st1.index, st1.index + strLength))
             Prefixed(raw) == Read(raw, raw.value)
         IN Prefixed(UnpackAt(property.jausType, payload, st.index))

RECURSIVE GetProperties(_, _, _, _, _)
RECURSIVE GetLoop(_, _, _, _)
RECURSIVE GetStep(_, _, _)
RECURSIVE GetObject(_, _, _, _)
RECURSIVE GetPayload(_, _, _, _)
RECURSIVE GetPayloadLoop(_, _, _, _, _)
RECURSIVE GetArray(_, _, _, _)
RECURSIVE GetItems(_, _, _, _, _, _)

\* lines 335-344: the candidate schemas of a nested payload; the first that
\* parses ends the whole function with a bare return
GetPayloadLoop(propertyName, schemas, j, payload, st) ==
    IF j > Len(schemas) THEN st
    ELSE LET Next1(err, st1) ==
                 IF err
                 THEN GetPayloadLoop(propertyName, schemas, j + 1, payload, st1)
                 ELSE [st1 EXCEPT !.ret = TRUE]
             Tried(inner) ==
                 Next1(inner.err,
                       [st EXCEPT !.schema = schemas[j],
                                  !.obj = SetItem(st.obj, propertyName,
                                                  SetItem(GetAttr(st.obj, propertyName),
                                                          "payload", inner.obj))])
         IN Tried(GetProperties(EmptyObj, payload, st.index, st.inone, schemas[j]))

\* lines 322-347: the try block of a JAUS MESSAGE property; an exception in
\* it is printed and the walk goes on below it
GetPayload(propertyName, property, payload, st) ==
    IF ~Has(property, "jausType") \/ property.jausType \notin DOMAIN JAUS_TYPES \/ st.inone
    THEN st
    ELSE LET typeSize == JAUS_TYPES[property.jausType]
             st1 == [st EXCEPT !.index = st.index + typeSize]
             Keyed(key) ==
                 LET st2 == [st1 EXCEPT !.obj = SetItem(st.obj, propertyName,
                                 [o |-> [k \in {"payloadMessageId"} |-> [s |-> key]]])]
                 IN IF key \notin DOMAIN JSON_SCHEMES THEN st2
                    ELSE GetPayloadLoop(propertyName, JSON_SCHEMES[key], 1, payload, st2)
             Read(size, id) ==
                 IF size.err THEN st
                 ELSE IF size.value < 2 THEN st1
                 ELSE IF id.err THEN st1
                 ELSE Keyed(FormatHex(id.value))
         IN Read(UnpackAt(property.jausType, payload, st.index),
                 UnpackAt("unsigned short integer", payload, st1.index))

\* lines 318-357: a property of type object
GetObject(propertyName, property, payload, st) ==
    IF Has(property, "fieldFormat") /\ property.fieldFormat # "JAUS MESSAGE"
    THEN Raise(st)
    ELSE LET Walked(st0, sub) ==
                 LET st1 == [st0 EXCEPT !.obj = SetItem(st0.obj, propertyName, sub.obj),
                                        !.index = sub.index, !.inone = sub.none,
                                        !.err = sub.err]
                 IN IF sub.err \/ ~Has(property, "bitField") THEN st1
                    ELSE IF st1.inone \/ property.bitField \notin DOMAIN JAUS_TYPES
                    THEN Raise(st1)
                    ELSE [st1 EXCEPT !.index = st1.index + JAUS_TYPES[property.bitField]]
             Nested(st0) ==
                 IF st0.ret THEN st0
                 ELSE Walked(st0, GetProperties(EmptyObj, payload, st0.index, st0.inone,
                                                property))
         IN Nested(IF Has(property, "fieldFormat")
                   THEN GetPayload(propertyName, property, payload, st) ELSE st)

\* lines 431-435, 440-444: count elements, each against items.anyOf[0]
GetItems(propertyName, property, count, i, payload, st) ==
    IF st.err \/ i >= count THEN st
    ELSE IF ~Has(property, "items") \/ Len(property.anyOf) = 0 THEN Raise(st)
    ELSE LET list == GetAttr(st.obj, propertyName)
             Walked(sub) ==
                 [st EXCEPT !.err = sub.err, !.index = sub.index, !.inone = sub.none,
                            !.obj = IF sub.err THEN st.obj
                                    ELSE SetItem(st.obj, propertyName,
                                                 [a |-> Append(list.a, sub.obj)])]
         IN GetItems(propertyName, property, count, i + 1, payload,
               Walked(GetProperties(EmptyObj, payload, st.index, st.inone,
                                    property.anyOf[1])))

\* lines 417-444: a property of type array
GetArray(propertyName, property, payload, st) ==
    IF Has(property, "jausType")
    THEN IF property.jausType \notin DOMAIN JAUS_TYPES \/ st.inone THEN Raise(st)
         ELSE LET st1 == [st EXCEPT !.index = st.index + JAUS_TYPES[property.jausType]]
                  Walked(sub) == [st1 EXCEPT !.obj = sub.obj, !.index = sub.index,
                                             !.inone = sub.none, !.err = sub.err]
                  \* items.anyOf[arrLength]: a negative index counts from the end
                  Variant(pick) ==
                      IF ~Has(property, "items") \/ pick \notin 1..Len(property.anyOf)
                      THEN Raise(st1)
                      ELSE Walked(GetProperties(st1.obj, payload, st1.index, st1.inone,
                                                property.anyOf[pick]))
                  Counted(arrLength) ==
                      IF arrLength.err THEN Raise(st)
                      ELSE IF Has(property, "isVariant") /\ property.isVariant
                      THEN Variant(IF arrLength.value < 0
                                   THEN Len(property.anyOf) + arrLength.value + 1
                                   ELSE arrLength.value + 1)
                      ELSE GetItems(propertyName, property, arrLength.value, 0, payload,
                                    [st1 EXCEPT !.obj = SetItem(st1.obj, propertyName,
                                                                [a |-> <<>>])])
              IN Counted(UnpackAt(property.jausType, payload, st.index))
    ELSE IF ~Has(property, "minItems") \/ ~Has(property, "maxItems") THEN Raise(st)
    ELSE IF property.minItems = property.maxItems
    THEN GetItems(propertyName, property, property.maxItems, 0, payload,
                  [st EXCEPT !.obj = SetItem(st.obj, propertyName, [a |-> <<>>])])
    ELSE st

\* lines 306-447: one turn of the loop over the property names
GetStep(propertyName, payload, st) ==
    IF ~HasProp(st.schema, propertyName) THEN Raise(st)
    ELSE IF st.pvSet /\ ~Has(st.schema, "required") THEN Raise(st)
    ELSE LET optional == st.pvSet /\ propertyName \notin st.schema.required
             absent == optional /\ (st.pv \div st.pidx) % 2 = 0
             Typed(property, st0) ==
                 IF absent THEN st0
                 ELSE CASE property.type = "object" ->
                               GetObject(propertyName, property, payload, st0)
                        [] property.type = "number" ->
                               GetNumber(propertyName, property, payload, st0)
                        [] property.type = "string" ->
                               GetString(propertyName, property, payload, st0)
                        [] property.type = "array" ->
                               GetArray(propertyName, property, payload, st0)
                        [] OTHER -> st0
         IN Typed(PropOf(st.schema, propertyName),
                  IF optional THEN [st EXCEPT !.pidx = st.pidx * 2] ELSE st)

GetLoop(names, k, payload, st) ==
    IF st.err \/ st.ret \/ k > Len(names) THEN st
    ELSE GetLoop(names, k + 1, payload, GetStep(names[k], payload, st))

\* _getProperties(jsonObj, payload, payloadIndex, schema): [err, obj, index,
\* none]: the exception flag, the dict afterwards, the index returned and
\* whether None was returned instead
GetProperties(jsonObj, payload, payloadIndex, payloadIndexNone, schema) ==
    IF ~Has(schema, "properties")
    THEN [err |-> TRUE, obj |-> jsonObj, index |-> payloadIndex, none |-> payloadIndexNone]
    ELSE LET Result(st) == [err |-> st.err, obj |-> st.obj, index |-> st.index,
                            none |-> st.ret \/ st.inone]
         IN Result(GetLoop(PropNames(schema), 1, payload,
                           [err |-> FALSE, ret |-> FALSE, obj |-> jsonObj,
                            index |-> payloadIndex, inone |-> payloadIndexNone,
                            pvSet |-> FALSE, pv |-> 0, pidx |-> 0, schema |-> schema]))

(***************************************************************************)
(* JausAddress and Message.  An address is its triple; its string form is  *)
(* S.N.C.  The strings of the model and the triples they parse to:         *)
(***************************************************************************)
ZeroAddress == <<0, 0, 0>>
AddressTable ==
    [str \in {"1.1.1", "1.1.2", "9.9.9", "0.0.0"} |->
        CASE str = "1.1.1" -> <<1, 1, 1>>
          [] str = "1.1.2" -> <<1, 1, 2>>
          [] str = "9.9.9" -> <<9, 9, 9>>
          [] str = "0.0.0" -> ZeroAddress]
\* JausAddress.from_string: a string of another shape raises
FromString(str) ==
    IF str \in DOMAIN AddressTable
    THEN [err |-> FALSE, addr |-> AddressTable[str]]
    ELSE [err |-> TRUE, addr |-> ZeroAddress]
\* JausAddress.jaus_id
JausId(addr) == CHOOSE str \in DOMAIN AddressTable : AddressTable[str] = addr
\* JausAddress.zero
IsZero(addr) == addr = ZeroAddress

AS5669 == 1
CODE_CONNECT == 1
CODE_ACCEPT == 2
CODE_CANCEL == 3

\* Message(msg_id): a data message without addresses, payload or endpoints
\* a Python int that may pass 2^31: its halves, the value is hi * 2^16 + lo
Num(n) == [hi |-> n \div 65536, lo |-> n % 65536]

NewMessage(msg_id) ==
    [version |-> AS5669, cmd_code |-> 0, msg_id |-> msg_id, src_id |-> ZeroAddress,
     dst_id |-> ZeroAddress, seqnr |-> Num(0), payload |-> <<>>,
     tinfo_src |-> None, tinfo_dst |-> None]

(***************************************************************************)
(* MessageSerializer.pack.  jsonObj is the frame: `has' names the keys the *)
(* JSON object carries.  The result is the return value and the message.   *)
(***************************************************************************)
\* lines 74-77, 81-84: the addresses, then the walk over data
PackWith(jsonObj, message, schema) ==
    LET src == FromString(jsonObj.jausIdSrc)
        dst == FromString(jsonObj.jausIdDst)
        m1 == [message EXCEPT !.src_id = src.addr]
        m2 == [m1 EXCEPT !.dst_id = dst.addr]
        Walked(walk) == [ok |-> ~walk.err, message |-> [m2 EXCEPT !.payload = walk.payload]]
    IN IF "jausIdSrc" \notin jsonObj.has \/ src.err THEN [ok |-> FALSE, message |-> message]
       ELSE IF "jausIdDst" \notin jsonObj.has \/ dst.err THEN [ok |-> FALSE, message |-> m1]
       ELSE IF "data" \notin jsonObj.has THEN [ok |-> FALSE, message |-> m2]
       ELSE Walked(AddProperties(jsonObj.data, message.payload, schema))

\* the first schema of the id, whatever the frame's messageName
PackByFirst(jsonObj, message, schemas, k) == PackWith(jsonObj, message, schemas[1])

\* lines 79-84: the first schema whose title is the frame's messageName
RECURSIVE PackByName(_, _, _, _)
PackByName(jsonObj, message, schemas, k) ==
    IF k > Len(schemas) \/ "messageName" \notin jsonObj.has
    THEN [ok |-> FALSE, message |-> message]
    ELSE IF schemas[k].title = jsonObj.messageName
    THEN PackWith(jsonObj, message, schemas[k])
    ELSE PackByName(jsonObj, message, schemas, k + 1)

\* pack that accepts every frame and leaves the message as it is
PackAccepted(jsonObj, message) == [ok |-> TRUE, message |-> message]

\* MessageSerializer.pack: a frame without messageId (AttributeError) or with
\* an id that is no key of JSON_SCHEMES (KeyError) ends in the except clause
Pack(jsonObj, message) ==
    IF "messageId" \notin jsonObj.has \/ jsonObj.messageId \notin DOMAIN JSON_SCHEMES
    THEN [ok |-> FALSE, message |-> message]
    ELSE LET schemas == JSON_SCHEMES[jsonObj.messageId]
         IN IF Len(schemas) = 1
            THEN PackWith(jsonObj, message, schemas[1])
            ELSE PackByName(jsonObj, message, schemas, 1)

(***************************************************************************)
(* MessageSerializer.unpack.  The result dict is [messageId, jausIdDst,    *)
(* jausIdSrc, hasData, data]; hasData tells whether the key data is set.   *)
(***************************************************************************)
\* lines 112-120: every schema of the id is tried in list order; each that
\* parses without raising stores its data in the result
RECURSIVE UnpackLoop(_, _, _, _)
UnpackLoop(message, schemas, k, result) ==
    IF k > Len(schemas) THEN result
    ELSE LET Walked(walk) ==
                 IF walk.err THEN result
                 ELSE [result EXCEPT !.hasData = TRUE, !.data = walk.obj]
         IN UnpackLoop(message, schemas, k + 1,
                       Walked(GetProperties(EmptyObj, message.payload, 0, FALSE,
                                            schemas[k])))

Unpack(message) ==
    LET msgId == ZFill(FormatHex(message.msg_id.i), 4)
        result == [messageId |-> msgId, jausIdDst |-> JausId(message.dst_id),
                   jausIdSrc |-> JausId(message.src_id),
                   hasData |-> FALSE, data |-> EmptyObj]
    IN IF message.msg_id.i = 0 \/ msgId \notin DOMAIN JSON_SCHEMES THEN result
       ELSE UnpackLoop(message, JSON_SCHEMES[msgId], 1, result)

(***************************************************************************)
(* The frames and messages the codec is exercised on.                      *)
(***************************************************************************)
AllKeys == {"messageId", "messageName", "jausIdSrc", "jausIdDst", "data"}
Frame(messageId, messageName, data) ==
    [has |-> AllKeys, messageId |-> messageId, messageName |-> messageName,
     jausIdSrc |-> "1.1.1", jausIdDst |-> "1.1.2", data |-> data]
Unnamed(frame) == [frame EXCEPT !.has = AllKeys \ {"messageName"}]

HeaderValue(messageId) == [o |-> [MessageID |-> [s |-> messageId]]]

QueryFrames ==
    {Frame(Id2b00, "QueryIdentification",
           [o |-> [HeaderRec |-> HeaderValue(Id2b00),
                   QueryIdentificationRec |-> [o |-> [QueryType |-> q]]]]) :
        q \in {[s |-> StrSYS], [s |-> StrSUB], [s |-> StrTV], [i |-> 2]}}

ReportFrames ==
    {Frame(Id4b00, "ReportIdentification",
           [o |-> [HeaderRec |-> HeaderValue(Id4b00),
                   ReportIdentificationRec |->
                       [o |-> [QueryType |-> [s |-> StrSYS], Type |-> [s |-> StrVEH],
                               Identification |-> [s |-> ident]]]]]) :
        ident \in {StrTV, <<>>}}
    \cup
    {Frame(Id4b00, "ReportIdentification",
           [o |-> [HeaderRec |-> HeaderValue(Id4b00),
                   ReportIdentificationRec |->
                       [o |-> [QueryType |-> [s |-> StrSYS], Type |-> [s |-> StrVEH]]]]])}

PoseOptional == {"X", "Mode", "Yaw"}
PoseField(name, x) ==
    CASE name = "X" -> [i |-> x]
      [] name = "Mode" -> [s |-> StrSUB]
      [] name = "Yaw" -> [i |-> 0 - 3]
      [] name = "TimeStamp" -> [i |-> 7]
PoseValue(present, x) ==
    [o |-> [PoseRec |-> [o |-> [name \in present \cup {"TimeStamp"} |-> PoseField(name, x)]]]]
PoseFrames ==
    {Frame(Id4402, "ReportPose", PoseValue(present, x)) :
        present \in SUBSET PoseOptional, x \in {10, 13}}

SetFrames ==
    LET values == {[o |-> [Rec |-> [o |-> [Wide |-> [i |-> 513]]]]],
                   [o |-> [Rec |-> [o |-> [Lo |-> [i |-> 1], Hi |-> [i |-> 2]]]]]}
        named == {Frame(Id0d01, name, v) :
                     name \in {"SetWide", "SetPair", "SetOther"}, v \in values}
    IN named \cup {Unnamed(Frame(Id0d01, "", v)) : v \in values}

TestNumbers == {0 - 200, 0 - 129, 0 - 128, 0 - 1, 0, 127, 128, 255, 256, 300, 1000,
                65535, 65536}
NumberFrames ==
    {Frame(NumberId(k), "SetNumber", [o |-> [Rec |-> [o |-> [Value |-> [i |-> n]]]]]) :
        k \in 1..Len(NumberTypes), n \in TestNumbers}

BitsFrames ==
    {Frame(Id0e00, "SetBits",
           [o |-> [Rec |-> [o |-> [Bits |-> [o |-> [Lo |-> [i |-> lo],
                                                    Hi |-> [i |-> hi]]]]]]]) :
        lo \in {0, 5}, hi \in {0, 3}}

UnknownFrames == {Frame(IdNone, "Unknown", EmptyObj)}

\* the values under payload of a nested message: one of QueryIdentification,
\* one of the id with the two schemas SetWide and SetPair, and an empty one
InnerValues ==
    {[o |-> [HeaderRec |-> HeaderValue(Id2b00),
             QueryIdentificationRec |-> [o |-> [QueryType |-> [s |-> StrSUB]]]]],
     [o |-> [Rec |-> [o |-> [Wide |-> [i |-> 3329]]]]],
     EmptyObj}
NestedValue(id, inner, withTail) ==
    LET msg == [o |-> [payloadMessageId |-> [s |-> id], payload |-> inner]]
    IN [o |-> [HeaderRec |-> HeaderValue(IF withTail THEN Id3a01 ELSE Id3a00),
               Rec |-> IF withTail
                       THEN [o |-> [Msg |-> msg, Tail |-> [i |-> 7]]]
                       ELSE [o |-> [Msg |-> msg]]]]
NestedFrames ==
    {Frame(Id3a00, "Wrapped", NestedValue(id, inner, FALSE)) :
        id \in {Id2b00, Id0d01, IdNone}, inner \in InnerValues}
    \cup
    {Frame(Id3a01, "WrappedTail", NestedValue(id, inner, TRUE)) :
        id \in {Id2b00, Id0d01}, inner \in InnerValues}

CodecFrames ==
    QueryFrames \cup ReportFrames \cup PoseFrames \cup SetFrames \cup NumberFrames
    \cup BitsFrames \cup UnknownFrames \cup NestedFrames

\* messages as the framer hands them to unpack: an integer id and a payload
ReceivedIds == {0, 3329, 11008, 65535}
ReceivedPayloads == {<<>>, <<1>>, <<1, 2>>, <<0, 43, 1>>, <<1, 2, 3>>}
Received(msg_id, payload) ==
    [NewMessage([i |-> msg_id]) EXCEPT !.payload = payload, !.src_id = <<1, 1, 2>>,
                                       !.dst_id = <<1, 1, 1>>]
\* messages that carry a nested message: the header, the size, the nested
\* payload (QueryIdentification, or the id 0d01) and, for WrappedTail, a number
NestedPayloads == {<<3, 0, 43, 2>>, <<2, 1, 13>>, <<1, 9>>, <<0>>}
ReceivedNested ==
    {Received(14848, <<0, 58>> \o pl) : pl \in NestedPayloads}
    \cup {Received(14849, <<1, 58>> \o pl \o <<7>>) : pl \in NestedPayloads}
ReceivedMessages ==
    {Received(id, pl) : id \in ReceivedIds, pl \in ReceivedPayloads} \cup ReceivedNested

NoFrame == Frame(IdNone, "", EmptyObj)
NoResult == [messageId |-> <<>>, jausIdDst |-> "", jausIdSrc |-> "",
             hasData |-> FALSE, data |-> EmptyObj]

VARIABLES
    cPc,            \* codec run: "idle", "frame", "packed", "received", "unpacked"
    cFrame,         \* the frame given to pack
    cMsg,           \* the Message given to pack and to unpack
    cOk,            \* what pack returned
    cOut            \* what unpack returned

codecVars == <<cPc, cFrame, cMsg, cOk, cOut>>

VARIABLES
    clients,        \* WsClientHandler.clients (class attribute, list)
    jausAddresses,  \* WsClientHandler.jausAddresses (class attribute, list)
    udpSocket,      \* WsClientHandler.udpSocket: "udp" or None
    closed,         \* UDPucSocket._closed
    default_dst,    \* UDPucSocket._default_dst: "nm" or None
    queue,          \* UDPucSocket._queue_send
    seqNr,          \* UDPucSocket._seqNr
    sPc, sMsg,      \* position of _loop_send and the message it holds
    rPc,            \* position of _loop_recv
    nmConnected,    \* UDPucSocket.nmConnected (unset until the first ACCEPT/CANCEL)
    address_book,   \* AddressBook entries
    sendLog,        \* history: sendto calls of the sender loop
    dispatched,     \* history: messages handed to route_udp_msg
    wsOut,          \* history: frames delivered to each WebSocket client
    framesFrom,     \* history: per connection, the jausIdSrc of its frames
    opened,         \* history: the connections that have been opened
    bIdx,           \* route_udp_msg: position of the iterator over clients
    bStart,         \* history: the clients list when the iteration began
    jsonObj,        \* Server.route_udp_msg: the unpacked message it sends
    sErr,           \* _sendto: the errno of the error caught, or None
    sockOpen,       \* the socket has not been closed (socket.socket.close)
    nFrames, nRecv  \* counters bounding the run

bridgeVars == <<clients, jausAddresses, udpSocket, closed, default_dst, queue,
                seqNr, sPc, sMsg, rPc, nmConnected, address_book, sendLog,
                dispatched, wsOut, framesFrom, opened, bIdx, bStart, jsonObj,
                sErr, sockOpen, nFrames, nRecv>>

VARIABLES
    startPc,        \* position of Server.start: "new", "udp", "failed", "running"
    msgSerializer   \* WsClientHandler.msgSerializer: "serializer" or None

startVars == <<startPc, msgSerializer>>

vars == <<bridgeVars, codecVars, startVars>>

(***************************************************************************)
(* The codec on its own, as test_pack.py drives it: a Message is created   *)
(* for the frame's id, packed, and unpacked again; or a received Message   *)
(* is unpacked.                                                            *)
(***************************************************************************)
CodecIdle ==
    /\ cPc = "idle" /\ cFrame = NoFrame /\ cMsg = NewMessage([i |-> 0])
    /\ cOk = FALSE /\ cOut = NoResult

DoPack ==
    /\ cPc = "frame"
    /\ LET r == Pack(cFrame, cMsg)
       IN cOk' = r.ok /\ cMsg' = r.message
    /\ cPc' = "packed"
    /\ UNCHANGED <<cFrame, cOut>>

DoUnpack ==
    /\ cPc \in {"packed", "received"}
    /\ cOut' = Unpack(cMsg)
    /\ cPc' = "unpacked"
    /\ UNCHANGED <<cFrame, cMsg, cOk>>

(***************************************************************************)
(* The bridge: WebSocket clients, the UDP socket and its two loops.        *)
(***************************************************************************)
Clients == {"c1", "c2"}
SourceStrings == {"1.1.1", "1.1.2", "x.y"}
QueryFrom(src) ==
    [Frame(Id2b00, "QueryIdentification",
           [o |-> [HeaderRec |-> HeaderValue(Id2b00),
                   QueryIdentificationRec |-> [o |-> [QueryType |-> [s |-> StrSYS]]]]])
        EXCEPT !.jausIdSrc = src]
BridgeFrames ==
    {QueryFrom(src) : src \in SourceStrings}
    \cup {[Frame(IdNone, "Unknown", EmptyObj) EXCEPT !.jausIdSrc = "1.1.1"]}

\* what the node manager sends: ACCEPT, CANCEL, and data for a component
IncomingMessages ==
    {[NewMessage([i |-> 0]) EXCEPT !.cmd_code = CODE_ACCEPT, !.src_id = <<9, 9, 9>>],
     [NewMessage([i |-> 0]) EXCEPT !.cmd_code = CODE_CANCEL, !.src_id = <<1, 1, 1>>],
     Received(11008, <<0, 43, 1>>)}

\* _loop_send holds no message (msg is None)
NoMsg == [none |-> TRUE]

BridgeInit ==
    /\ clients = <<>>
    /\ jausAddresses = <<>>
    /\ udpSocket = "udp"
    /\ closed = FALSE
    /\ default_dst = "nm"
    /\ queue = <<>>
    /\ seqNr = Num(0)
    /\ sPc = "top" /\ sMsg = NoMsg
    /\ rPc = "recv"
    /\ nmConnected = "unset"
    /\ address_book = {}
    /\ sendLog = <<>>
    /\ dispatched = <<>>
    /\ wsOut = [c \in Clients |-> <<>>]
    /\ framesFrom = [c \in Clients |-> {}]
    /\ opened = {}
    /\ bIdx = 0 /\ bStart = <<>> /\ jsonObj = NoMsg /\ sErr = None
    /\ sockOpen = TRUE
    /\ nFrames = 0 /\ nRecv = 0
    /\ startPc = "running" /\ msgSerializer = "serializer"

InList(x, list) == \E k \in 1..Len(list) : list[k] = x
RECURSIVE Remove(_, _)
\* list.remove(x): the first occurrence
Remove(list, x) ==
    IF list = <<>> THEN <<>>
    ELSE IF Head(list) = x THEN Tail(list) ELSE <<Head(list)>> \o Remove(Tail(list), x)

\* the queue_length Server.start gives the socket for its send queue
queue_length == 0

\* PQueue.put raises queue.Full: the queue holds as many messages as its
\* bound; a bound of 0 is no bound
Full(q) == queue_length > 0 /\ Len(q) >= queue_length

\* AddressBook.Endpoint(AddressBook.Endpoint.UDP, self._hostname, self.port)
LocalEndpoint == "udp:hostname:port"

\* UDPucSocket.connectJausAddress / disconnectJausAddress: the message put
ConnectWithId(jausAddress) ==
    [NewMessage([i |-> 1]) EXCEPT !.version = AS5669, !.cmd_code = CODE_CONNECT,
                                  !.src_id = jausAddress, !.tinfo_src = LocalEndpoint]
ConnectMessage(jausAddress) ==
    [NewMessage([i |-> 0]) EXCEPT !.version = AS5669, !.cmd_code = CODE_CONNECT,
                                  !.src_id = jausAddress, !.tinfo_src = LocalEndpoint]
\* a close that announces the address once more instead of cancelling it
CancelAsConnect(jausAddress) ==
    [NewMessage([i |-> 0]) EXCEPT !.version = AS5669, !.cmd_code = CODE_CONNECT,
                                  !.src_id = jausAddress, !.tinfo_src = LocalEndpoint]
CancelMessage(jausAddress) ==
    [NewMessage([i |-> 0]) EXCEPT !.version = AS5669, !.cmd_code = CODE_CANCEL,
                                  !.src_id = jausAddress, !.tinfo_src = LocalEndpoint]
\* UDPucSocket.send_queued: the message put
QueuedMessage(msg) == [msg EXCEPT !.tinfo_src = LocalEndpoint]

\* self.jausAddresses of a handler: no handler assigns the attribute, so
\* the lookup finds the list of the class
JausAddressesOf(client) == jausAddresses

\* WsClientHandler.connected
Connected(c) ==
    /\ c \notin opened
    /\ opened' = opened \cup {c}
    /\ clients' = Append(clients, c)
    /\ UNCHANGED <<framesFrom, jausAddresses, udpSocket, closed, default_dst, queue,
                   seqNr, sPc, sMsg, rPc, nmConnected, address_book, sendLog,
                   dispatched, wsOut, nFrames, nRecv, codecVars, startVars, bIdx,
                   bStart,
                   jsonObj, sErr, sockOpen>>

\* lines 63-64: the Message made for the frame and what pack returns for it
FramePack(frame) == Pack(frame, NewMessage([s |-> frame.messageId]))

\* the message queued whatever pack returned
QueuedAlways(packed) == <<QueuedMessage(packed.message)>>

\* lines 64-65: send_queued only if pack returned True
QueuedIfPacked(packed) == IF packed.ok THEN <<QueuedMessage(packed.message)>> ELSE <<>>

\* a handler that puts the data message of a frame before the CONNECT
HandlePutsDataFirst(frame, list, q) ==
    LET jAddr == FromString(frame.jausIdSrc)
        new == ~InList(jAddr.addr, list)
    IN IF "jausIdSrc" \notin frame.has \/ jAddr.err
       THEN [list |-> list, puts |-> <<>>]
       ELSE [list |-> IF new THEN Append(list, jAddr.addr) ELSE list,
             puts |-> (IF "messageId" \in frame.has
                       THEN QueuedIfPacked(FramePack(frame)) ELSE <<>>)
                      \o (IF new THEN <<ConnectMessage(jAddr.addr)>> ELSE <<>>)]

\* the messages WsClientHandler.handle puts on the queue q for a frame, and
\* the list after.  queue.Full from connectJausAddress ends the handler in
\* its except clause, after the address was appended; send_queued catches
\* queue.Full itself.
HandlePuts(frame, list, q) ==
    LET jAddr == FromString(frame.jausIdSrc)
        new == ~InList(jAddr.addr, list)
        connect == IF new THEN <<ConnectMessage(jAddr.addr)>> ELSE <<>>
        Sent(msgs) == IF msgs # <<>> /\ Full(q \o connect) THEN <<>> ELSE msgs
    IN IF "jausIdSrc" \notin frame.has \/ jAddr.err
       THEN [list |-> list, puts |-> <<>>]
       ELSE IF new /\ Full(q)
       THEN [list |-> Append(list, jAddr.addr), puts |-> <<>>]
       ELSE [list |-> IF new THEN Append(list, jAddr.addr) ELSE list,
             puts |-> connect
                      \o (IF "messageId" \in frame.has
                          THEN Sent(QueuedIfPacked(FramePack(frame)))
                          ELSE <<>>)]

\* WsClientHandler.handle
Handle(c, frame) ==
    /\ InList(c, clients)
    /\ nFrames < MaxFrames
    /\ nFrames' = nFrames + 1
    /\ LET jAddr == FromString(frame.jausIdSrc)
           Put(h) ==
               /\ jausAddresses' = h.list
               /\ queue' = queue \o h.puts
       IN IF udpSocket = None
          THEN UNCHANGED <<jausAddresses, queue, framesFrom>>
          ELSE /\ Put(HandlePuts(frame, JausAddressesOf(c), queue))
               /\ framesFrom' = IF jAddr.err THEN framesFrom
                                ELSE [framesFrom EXCEPT ![c] = @ \cup {jAddr.addr}]
    /\ UNCHANGED <<clients, udpSocket, closed, default_dst, seqNr, sPc, sMsg, rPc,
                   nmConnected, address_book, sendLog, dispatched, wsOut, nRecv, opened,
                   codecVars, startVars, bIdx, bStart,
                   jsonObj, sErr, sockOpen>>

\* WsClientHandler.handle_close.  Without a socket the first
\* disconnectJausAddress raises and the handler ends there; so it does at
\* the first disconnectJausAddress whose put raises queue.Full.
HandleClose(c) ==
    /\ InList(c, clients)
    /\ clients' = Remove(clients, c)
    /\ LET list == JausAddressesOf(c)
           room == IF queue_length > 0 /\ queue_length - Len(queue) < Len(list)
                   THEN (IF Len(queue) > queue_length THEN 0
                         ELSE queue_length - Len(queue))
                   ELSE Len(list)
           raises == list # <<>> /\ (udpSocket = None \/ room < Len(list))
           cancels == IF udpSocket = None THEN <<>>
                      ELSE [k \in 1..room |-> CancelMessage(list[k])]
       IN /\ queue' = queue \o cancels
          /\ jausAddresses' = IF raises THEN jausAddresses ELSE <<>>
          /\ wsOut' = [d \in Clients |->
                          IF ~raises /\ InList(d, clients') 
                          THEN Append(wsOut[d], [text |-> "disconnected"])
                          ELSE wsOut[d]]
    /\ UNCHANGED <<udpSocket, closed, default_dst, seqNr, sPc, sMsg, rPc, nmConnected,
                   address_book, sendLog, dispatched, framesFrom, nFrames, nRecv,
                   opened, codecVars, startVars, bIdx, bStart,
                   jsonObj, sErr, sockOpen>>

\* Server.shutdown: the handlers lose the socket, and UDPucSocket.close
\* begins by setting the closed flag (line 110)
Shutdown ==
    /\ startPc # "new" /\ ~closed
    /\ udpSocket' = None
    /\ closed' = TRUE
    /\ UNCHANGED <<clients, jausAddresses, default_dst, queue, seqNr, sPc, sMsg, rPc,
                   nmConnected, address_book, sendLog, dispatched, wsOut, framesFrom,
                   nFrames, nRecv, opened, codecVars, startVars, bIdx, bStart,
                   jsonObj, sErr, sockOpen>>

\* UDPucSocket.close, lines 112-118: the socket is shut down for reading and
\* closed, and the send queue is cleared
Close ==
    /\ closed /\ sockOpen
    /\ sockOpen' = FALSE
    /\ queue' = <<>>
    /\ UNCHANGED <<clients, jausAddresses, udpSocket, closed, default_dst, seqNr, sPc,
                   sMsg, rPc, nmConnected, address_book, sendLog, dispatched, wsOut,
                   framesFrom, nFrames, nRecv, opened, codecVars, startVars, bIdx,
                   bStart, jsonObj, sErr>>

(***************************************************************************)
(* UDPucSocket._loop_send, in four steps: the test of the while loop, the  *)
(* blocking get, the test of the closed flag and the message, the send.    *)
(***************************************************************************)
\* a loop test that goes round whatever the flag says
LoopAgain(isClosed) == "get"

\* line 161, while not self._closed: where the sender goes from the test
LoopTest(isClosed) == IF isClosed THEN "exit" ELSE "get"

SendTop ==
    /\ sPc = "top"
    /\ sPc' = LoopTest(closed)
    /\ sErr' = None
    /\ UNCHANGED <<clients, jausAddresses, udpSocket, closed, default_dst, queue, seqNr,
                   sMsg, rPc, nmConnected, address_book, sendLog, dispatched, wsOut,
                   framesFrom, nFrames, nRecv, opened, codecVars, startVars, bIdx,
                   bStart,
                   jsonObj, sockOpen>>

\* PQueue.get: the next message, or None once clear() has cancelled the wait
SendGet ==
    /\ sPc = "get"
    /\ \/ /\ queue # <<>>
          /\ sMsg' = Head(queue)
          /\ queue' = Tail(queue)
       \/ /\ queue = <<>> /\ ~sockOpen
          /\ sMsg' = NoMsg
          /\ queue' = queue
    /\ sPc' = "got"
    /\ UNCHANGED <<clients, jausAddresses, udpSocket, closed, default_dst, seqNr, rPc,
                   nmConnected, address_book, sendLog, dispatched, wsOut, framesFrom,
                   nFrames, nRecv, opened, codecVars, startVars, bIdx, bStart,
                   jsonObj, sErr, sockOpen>>

\* errno of a failed sendto that _sendto swallows (-5 with a warning once
\* for a destination, the three others silently) / re-raises (EINVAL and -2
\* by name, and whatever else, such as EBADF of a socket closed meanwhile)
SwallowedErrors == {"-5", "ENETDOWN", "ENETUNREACH", "ENETRESET"}
RaisedAlso == {"EINVAL", "-2", "EBADF", "ENETDOWN"}
RaisedErrors == {"EINVAL", "-2", "EBADF"}
SendOutcomes == {"ok"} \cup SwallowedErrors \cup RaisedErrors

\* a sender that sends nothing before the node manager's ACCEPT
DestinationIfConnected(msg) ==
    IF nmConnected # "true" THEN None
    ELSE IF default_dst # None /\ msg.tinfo_dst = None THEN default_dst
    ELSE msg.tinfo_dst

\* a sender that sends everything to the default destination
DestinationDefault(msg) == default_dst

\* lines 165-170: the destination of a message
Destination(msg) ==
    IF default_dst # None /\ msg.tinfo_dst = None THEN default_dst ELSE msg.tinfo_dst

\* the counter left as it is after a send
SeqNrKept(n) == n

\* line 174: the counter after a message was given its sequence number
\* (self._seqNr += 1 on a Python int, which has no upper bound)
NextSeqNr(n) == IF n.lo = 65535 THEN [hi |-> n.hi + 1, lo |-> 0]
                ELSE [hi |-> n.hi, lo |-> n.lo + 1]

\* a loop that catches what _sendto raises and goes round
AfterSendCaught(outcome) == "top"

\* line 175: _loop_send calls _sendto outside any try, so that what _sendto
\* raises ends the thread
AfterSend(outcome) == IF outcome \in RaisedErrors THEN "dead" ELSE "top"

\* line 164, if not self._closed and msg is not None: the flag is read
\* here, and close() may set it before the lines that follow have run
SendCheck ==
    /\ sPc = "got"
    /\ IF closed \/ sMsg = NoMsg
       THEN sPc' = "top" /\ sMsg' = NoMsg
       ELSE sPc' = "send" /\ sMsg' = sMsg
    /\ UNCHANGED <<clients, jausAddresses, udpSocket, closed, default_dst, queue, seqNr,
                   rPc, nmConnected, address_book, sendLog, dispatched, wsOut,
                   framesFrom, nFrames, nRecv, opened, codecVars, startVars, bIdx,
                   bStart, jsonObj, sErr, sockOpen>>

\* lines 165-175: the message is numbered and sent; sErr is the errno of the
\* socket.error that _sendto caught, if it caught one.  On a socket that
\* close() has closed meanwhile sendto fails with EBADF.
SendMsg(outcome) ==
    /\ sPc = "send"
    /\ sMsg' = NoMsg
    /\ IF Destination(sMsg) = None
       THEN /\ outcome = "ok"
            /\ sPc' = "top"
            /\ UNCHANGED <<seqNr, sendLog, sErr>>
       ELSE /\ ~sockOpen => outcome = "EBADF"
            /\ seqNr' = NextSeqNr(seqNr)
            /\ sErr' = IF outcome = "ok" THEN None ELSE outcome
            /\ sendLog' = Append(sendLog, [msg |-> [sMsg EXCEPT !.seqnr = seqNr],
                                           dst |-> Destination(sMsg)])
            /\ sPc' = AfterSend(outcome)
    /\ UNCHANGED <<clients, jausAddresses, udpSocket, closed, default_dst, queue, rPc,
                   nmConnected, address_book, dispatched, wsOut, framesFrom, nFrames,
                   nRecv, opened, codecVars, startVars, bIdx, bStart,
                   jsonObj, sockOpen>>

(***************************************************************************)
(* UDPucSocket._loop_recv for a datagram of one message, and               *)
(* Server.route_udp_msg which it calls.                                    *)
(***************************************************************************)
\* a receive loop that takes nothing for connection management
NeverManagement(msg) == FALSE

\* lines 222-251: connection management
IsManagement(msg) == IsZero(msg.dst_id) \/ msg.cmd_code > 0

\* Server.route_udp_msg, line 190: client.send_message(json.dumps(jsonObj))
SendMessage(out, client, obj) == [out EXCEPT ![client] = Append(@, obj)]

\* a receive loop that catches what route_udp_msg raises and goes round
RecvCaught(raised) == IF raised THEN "recv" ELSE "route"

\* lines 267-274: the try of the loop catches queue.Full and socket.error;
\* anything else that route_udp_msg raises ends the thread
RecvAfter(raised) == IF raised THEN "dead" ELSE "route"

\* one message of a datagram, up to the call of route_udp_msg.  The call
\* reads WsClientHandler.msgSerializer: while that is None it raises
\* AttributeError, which no except clause of the loop catches, and the
\* receive thread ends.  Otherwise the message is unpacked (line 185) and the loop over
\* WsClientHandler.clients begins; the receive thread runs it while the
\* WebSocket thread may append to the list and remove from it.
Recv(msg) ==
    /\ rPc = "recv"
    /\ ~closed
    /\ nRecv' = nRecv + 1
    /\ nmConnected' = IF IsManagement(msg) /\ msg.cmd_code = CODE_ACCEPT THEN "true"
                      ELSE IF IsManagement(msg) /\ msg.cmd_code = CODE_CANCEL THEN "false"
                      ELSE nmConnected
    /\ address_book' = IF IsManagement(msg) /\ msg.cmd_code = CODE_CANCEL
                       THEN address_book \ {msg.src_id} ELSE address_book
    /\ dispatched' = Append(dispatched, msg)
    /\ IF msgSerializer = None
       THEN bStart' = bStart /\ jsonObj' = jsonObj
       ELSE bStart' = clients /\ jsonObj' = Unpack(msg)
    /\ rPc' = RecvAfter(msgSerializer = None)
    /\ UNCHANGED <<clients, jausAddresses, udpSocket, closed, default_dst, queue, seqNr,
                   sPc, sMsg, sendLog, wsOut, framesFrom, nFrames, opened, bIdx,
                   sErr, sockOpen, codecVars, startVars>>

\* lines 187-190: one turn of `for client in WsClientHandler.clients`.  The
\* list iterator holds an index: it yields the element at the index in the
\* list as it is now and ends once the index has reached the length.
Route ==
    /\ rPc = "route"
    /\ IF bIdx < Len(clients)
       THEN /\ wsOut' = SendMessage(wsOut, clients[bIdx + 1], jsonObj)
            /\ bIdx' = bIdx + 1
            /\ UNCHANGED <<rPc, bStart, jsonObj>>
       ELSE /\ rPc' = "recv"
            /\ bIdx' = 0 /\ bStart' = <<>> /\ jsonObj' = NoMsg
            /\ wsOut' = wsOut
    /\ UNCHANGED <<clients, jausAddresses, udpSocket, closed, default_dst, queue, seqNr,
                   sPc, sMsg, nmConnected, address_book, sendLog, dispatched,
                   framesFrom, nFrames, nRecv, opened, sErr, sockOpen, codecVars, startVars>>

\* the receive loop leaves once the socket is closed
RecvExit ==
    /\ rPc = "recv"
    /\ closed
    /\ rPc' = "exit"
    /\ UNCHANGED <<clients, jausAddresses, udpSocket, closed, default_dst, queue, seqNr,
                   sPc, sMsg, nmConnected, address_book, sendLog, dispatched, wsOut,
                   framesFrom, nFrames, nRecv, opened, codecVars, startVars, bIdx,
                   bStart,
                   jsonObj, sErr, sockOpen>>

(***************************************************************************)
(* Server.start.  Line 112 makes the UDP socket, whose constructor starts  *)
(* the receive and the send thread; line 114 constructs the serializer,    *)
(* which would load the schemas; lines 116-121 give the handlers the       *)
(* socket and start the WebSocket server.  MessageSerializer.__init__      *)
(* passes loglevel to MyLogger by position (message_serializer.py line 58) *)
(* where MyLogger takes it by keyword only (logger.py line 33): the        *)
(* TypeError leaves start at line 114, with the threads of the socket      *)
(* running and no serializer.  Spec below takes the bridge up from the     *)
(* state in which the serializer, the socket and the WebSocket server are  *)
(* in place, which is the state every operation on them presupposes.       *)
(***************************************************************************)
StartUdp ==
    /\ startPc = "new"
    /\ startPc' = "udp"
    /\ sPc' = "top" /\ rPc' = "recv"
    /\ UNCHANGED <<clients, jausAddresses, udpSocket, closed, default_dst, queue, seqNr,
                   sMsg, nmConnected, address_book, sendLog, dispatched, wsOut,
                   framesFrom, nFrames, nRecv, opened, codecVars, msgSerializer, bIdx,
                   bStart,
                   jsonObj, sErr, sockOpen>>

StartSerializer ==
    /\ startPc = "udp"
    /\ startPc' = "failed"
    /\ UNCHANGED <<bridgeVars, codecVars, msgSerializer>>

InitStart ==
    /\ clients = <<>> /\ jausAddresses = <<>> /\ udpSocket = None
    /\ closed = FALSE /\ default_dst = "nm" /\ queue = <<>> /\ seqNr = Num(0)
    /\ sPc = "none" /\ sMsg = NoMsg /\ rPc = "none"
    /\ nmConnected = "unset" /\ address_book = {}
    /\ sendLog = <<>> /\ dispatched = <<>>
    /\ wsOut = [c \in Clients |-> <<>>]
    /\ framesFrom = [c \in Clients |-> {}]
    /\ opened = {} /\ nFrames = 0 /\ nRecv = 0
    /\ bIdx = 0 /\ bStart = <<>> /\ jsonObj = NoMsg /\ sErr = None
    /\ sockOpen = TRUE
    /\ startPc = "new" /\ msgSerializer = None
    /\ CodecIdle

NextStart ==
    \/ StartUdp
    \/ StartSerializer
    \/ Shutdown
    \/ Close
    \/ SendTop
    \/ SendGet
    \/ SendCheck
    \/ \E msg \in IncomingMessages \cup ReceivedMessages :
          nRecv < MaxRecvLive /\ Recv(msg)
    \/ RecvExit

SpecStart == InitStart /\ [][NextStart]_vars

(***************************************************************************)
(* The UDPucSocket on its own, as its constructor and send_queued allow it *)
(* to be used: with or without a default_dst, and with messages queued     *)
(* that name an endpoint of their own or none.  Its router has no client,  *)
(* its address book may hold addresses, and what it receives includes the  *)
(* CONNECT of another component.  The socket is new, or it has been in use *)
(* for 2^32 - 1 sends; sendLog holds the sends since.                      *)
(***************************************************************************)
QueuedInputs ==
    {QueuedMessage([NewMessage([i |-> 11008]) EXCEPT !.src_id = <<1, 1, 1>>,
                                                     !.tinfo_dst = dst]) :
        dst \in {None, "peer"}}
    \cup {ConnectMessage(<<1, 1, 1>>)}

InitSend ==
    /\ clients = <<>> /\ jausAddresses = <<>> /\ udpSocket = "udp"
    /\ closed = FALSE
    /\ default_dst \in {None, "nm"}
    /\ queue \in UNION {[1..n -> QueuedInputs] : n \in 0..MaxQueued}
    /\ seqNr \in {Num(0), [hi |-> 65535, lo |-> 65535]}
    /\ sPc = "top" /\ sMsg = NoMsg /\ rPc = "recv"
    /\ nmConnected = "unset"
    /\ address_book \in {{}, {<<1, 1, 1>>, <<9, 9, 9>>}}
    /\ sendLog = <<>> /\ dispatched = <<>>
    /\ wsOut = [c \in Clients |-> <<>>]
    /\ framesFrom = [c \in Clients |-> {}]
    /\ opened = {} /\ nFrames = 0 /\ nRecv = 0
    /\ bIdx = 0 /\ bStart = <<>> /\ jsonObj = NoMsg /\ sErr = None
    /\ sockOpen = TRUE
    /\ startPc = "running" /\ msgSerializer = "serializer"
    /\ CodecIdle

NextSend ==
    \/ Shutdown
    \/ Close
    \/ SendTop
    \/ SendGet
    \/ SendCheck
    \/ \E outcome \in SendOutcomes : SendMsg(outcome)
    \/ \E msg \in IncomingMessages \cup {ConnectMessage(<<9, 9, 9>>)} :
          nRecv < MaxRecvLive /\ Recv(msg)
    \/ Route
    \/ RecvExit

SpecSend == InitSend /\ [][NextSend]_vars

Init == BridgeInit /\ CodecIdle

Next ==
    \/ \E c \in Clients : Connected(c)
    \/ \E c \in Clients, frame \in BridgeFrames : Handle(c, frame)
    \/ \E c \in Clients : HandleClose(c)
    \/ Shutdown
    \/ Close
    \/ SendTop
    \/ SendGet
    \/ SendCheck
    \/ \E outcome \in {"ok", "EBADF"} : SendMsg(outcome)
    \/ \E msg \in IncomingMessages : nRecv < MaxRecv /\ Recv(msg)
    \/ Route
    \/ RecvExit

Spec == Init /\ [][Next]_vars

(***************************************************************************)
(* The send thread and the receive thread are threads of their own, which  *)
(* the interpreter keeps scheduling: a step one of them can take is taken  *)
(* in the end.  Nothing obliges a client to connect, to send or to leave,  *)
(* the node manager to send, or the server to shut down.                   *)
(***************************************************************************)
ThreadsRun ==
    /\ WF_vars(SendTop)
    /\ WF_vars(SendGet)
    /\ WF_vars(SendCheck)
    /\ WF_vars(Close)
    /\ WF_vars(\E outcome \in SendOutcomes : SendMsg(outcome))
    /\ WF_vars(Route)
    /\ WF_vars(RecvExit)

\* the bridge with one client, which is all that the loops of the socket
\* need to be met by close() at each of their positions
NextLive ==
    \/ Connected("c1")
    \/ \E frame \in BridgeFrames : Handle("c1", frame)
    \/ HandleClose("c1")
    \/ Shutdown
    \/ Close
    \/ SendTop
    \/ SendGet
    \/ SendCheck
    \/ \E outcome \in SendOutcomes : SendMsg(outcome)
    \/ \E msg \in IncomingMessages : nRecv < MaxRecvLive /\ Recv(msg)
    \/ Route
    \/ RecvExit

SpecLive == Init /\ [][NextLive]_vars /\ ThreadsRun

InitCodec ==
    /\ BridgeInit
    /\ cOk = FALSE /\ cOut = NoResult
    /\ \/ /\ cPc = "frame"
          /\ cFrame \in CodecFrames
          /\ cMsg = NewMessage([i |-> HexValue(cFrame.messageId)])
       \/ /\ cPc = "received"
          /\ cFrame = NoFrame
          /\ cMsg \in ReceivedMessages

NextCodec ==
    \/ DoPack /\ UNCHANGED <<bridgeVars, startVars>>
    \/ DoUnpack /\ UNCHANGED <<bridgeVars, startVars>>

SpecCodec == InitCodec /\ [][NextCodec]_vars

(***************************************************************************)
(* Properties of the bridge.                                               *)
(***************************************************************************)
\* the messages a step appended to the send queue
Enqueued == SubSeq(queue', Len(queue) + 1, Len(queue'))
EnqueuedWith(code) == {k \in 1..Len(Enqueued) : Enqueued[k].cmd_code = code}

\* C1: the k-th message the sender loop transmits (k = 0, 1, ...) carries
\* seqnr = k, whoever enqueued it: the numbers sent so far are 0 .. N-1 in
\* order, without gap or repeat, and the counter is the number of sends.
C1_SeqNrIsSendIndex ==
    /\ seqNr = Num(Len(sendLog))
    /\ \A k \in 1..Len(sendLog) : sendLog[k].msg.seqnr = Num(k - 1)

\* three sends, of messages of two kinds enqueued for two source addresses
C1_Witness ==
    /\ Len(sendLog) >= 3
    /\ \E i, j \in 1..Len(sendLog) :
          /\ sendLog[i].msg.src_id # sendLog[j].msg.src_id
          /\ sendLog[i].msg.cmd_code # sendLog[j].msg.cmd_code

\* C2: a frame of a connected client enqueues exactly one CONNECT, for its
\* jausIdSrc, when no earlier frame of that client had this jausIdSrc, and no
\* CONNECT otherwise.
C2_OneConnectPerNewSource ==
    [][\A c \in Clients, frame \in BridgeFrames :
          (Handle(c, frame) /\ udpSocket # None /\ ~FromString(frame.jausIdSrc).err)
          => LET a == FromString(frame.jausIdSrc).addr
                 connects == EnqueuedWith(CODE_CONNECT)
             IN IF a \in framesFrom[c] THEN connects = {}
                ELSE /\ Cardinality(connects) = 1
                     /\ \A k \in connects : Enqueued[k].src_id = a]_vars

\* C3: a received message handled as connection management (dst_id zero or
\* cmd_code > 0) is never handed to route_udp_msg.
C3_ManagementNotDispatched ==
    \A k \in 1..Len(dispatched) : ~IsManagement(dispatched[k])

\* C4: closing a client enqueues exactly one CANCEL for each source address
\* recorded for that client since it connected and for no other address, and
\* leaves the client's recorded list empty.
C4_CancelOwnSources ==
    [][\A c \in Clients :
          (HandleClose(c) /\ udpSocket # None)
          => /\ EnqueuedWith(CODE_CANCEL) = 1..Len(Enqueued)
             /\ {Enqueued[k].src_id : k \in 1..Len(Enqueued)} = framesFrom[c]
             /\ Len(Enqueued) = Cardinality(framesFrom[c])
             /\ JausAddressesOf(c)' = <<>>]_vars

\* C5: each client has its own list of seen source addresses: a frame
\* handled for one client, or the close of one client, leaves the list of
\* every other connected client as it was.
C5_OwnAddressList ==
    [][\A c \in Clients :
          ((\E frame \in BridgeFrames : Handle(c, frame)) \/ HandleClose(c))
          => \A d \in Clients \ {c} :
                InList(d, clients) => JausAddressesOf(d)' = JausAddressesOf(d)]_vars

(***************************************************************************)
(* Properties of the codec.                                                *)
(***************************************************************************)
\* the range of an integer jausType, for the types narrower than the
\* numbers of the model
TypeMax(jausType) ==
    CASE jausType = "byte" -> 127
      [] jausType = "unsigned byte" -> 255
      [] jausType = "short integer" -> 32767
      [] jausType = "unsigned short integer" -> 65535
TypeMin(jausType) ==
    CASE jausType = "byte" -> 0 - 128
      [] jausType = "short integer" -> 0 - 32768
      [] OTHER -> 0
Narrow(jausType) == JAUS_TYPES[jausType] <= 2
Unsigned(jausType) ==
    jausType \in {"unsigned byte", "unsigned short integer", "unsigned integer",
                  "unsigned long integer"}
InRange(jausType, n) ==
    IF Narrow(jausType) THEN n >= TypeMin(jausType) /\ n <= TypeMax(jausType)
    ELSE ~Unsigned(jausType) \/ n >= 0
\* clip(n, min, max) for the range of jausType
Clip(jausType, n) ==
    IF InRange(jausType, n) THEN n
    ELSE IF n < 0 THEN TypeMin(jausType) ELSE TypeMax(jausType)

PropNamesSet(node) == {node.properties[k].name : k \in 1..Len(node.properties)}

\* a value conforms to a schema node
RECURSIVE Conforms(_, _)
Conforms(v, node) ==
    CASE node.type = "object" ->
            /\ IsObj(v)
            /\ DOMAIN v.o \subseteq PropNamesSet(node)
            /\ \A name \in PropNamesSet(node) :
                  IF name \in DOMAIN v.o THEN Conforms(v.o[name], PropOf(node, name))
                  ELSE name \notin node.required \/ name = "presenceVector"
      [] node.type = "number" ->
            /\ IsInt(v)
            /\ IF Has(node, "scaleRange")
               THEN InRange(node.jausType, RoundDiv(v.i - node.bias, node.scaleFactor))
               ELSE InRange(node.jausType, v.i)
      [] node.type = "string" /\ Has(node, "const") -> IsStr(v) /\ v.s = node.const
      [] node.type = "string" /\ Has(node, "enum") ->
            /\ IsStr(v)
            /\ \E k \in 1..Len(node.valueSet) : node.valueSet[k].enumConst = v.s
      [] node.type = "string" /\ ~Has(node, "const") /\ ~Has(node, "enum") ->
            IsStr(v) /\ Len(v.s) >= node.minLength /\ Len(v.s) <= node.maxLength
      [] OTHER -> FALSE

\* decoded data equal to the value encoded: the same keys (the decoder adds
\* the presence vector), the same values, a scaled number within scaleFactor
RECURSIVE SameData(_, _, _)
SameData(v, w, node) ==
    CASE node.type = "object" ->
            /\ IsObj(w)
            /\ DOMAIN v.o \subseteq DOMAIN w.o
            /\ DOMAIN w.o \subseteq DOMAIN v.o \cup {"presenceVector"}
            /\ \A name \in DOMAIN v.o \ {"presenceVector"} :
                  SameData(v.o[name], w.o[name], PropOf(node, name))
      [] node.type = "number" /\ Has(node, "scaleRange") ->
            IsInt(w) /\ w.i - v.i <= node.scaleFactor /\ v.i - w.i <= node.scaleFactor
      [] OTHER -> DOMAIN v = DOMAIN w /\ v = w

\* the schemas registered for the frame's id that carry the frame's name
SchemasOf(frame) ==
    IF frame.messageId \notin DOMAIN JSON_SCHEMES THEN {}
    ELSE {JSON_SCHEMES[frame.messageId][k] : k \in 1..Len(JSON_SCHEMES[frame.messageId])}
NamedSchemas(frame) ==
    {S \in SchemasOf(frame) : "messageName" \in frame.has /\ S.title = frame.messageName}

\* C6: for a frame whose data conforms to the schema registered under its id
\* (an id with one schema), pack succeeds and unpack of the packed message
\* yields data equal to the data packed, a scaled number within one
\* scaleFactor.
C6_RoundTrip ==
    (cPc = "unpacked" /\ cFrame # NoFrame /\ Cardinality(SchemasOf(cFrame)) = 1)
    => \A S \in SchemasOf(cFrame) :
          Conforms(cFrame.data, S)
          => cOk /\ cOut.hasData /\ SameData(cFrame.data, cOut.data, S)

\* the first schema of the list, from the k-th on, that decodes the payload
RECURSIVE FirstDecoding(_, _, _)
FirstDecoding(payload, schemas, k) ==
    IF k > Len(schemas) THEN [found |-> FALSE, obj |-> EmptyObj]
    ELSE IF ~GetProperties(EmptyObj, payload, 0, FALSE, schemas[k]).err
    THEN [found |-> TRUE, obj |-> GetProperties(EmptyObj, payload, 0, FALSE, schemas[k]).obj]
    ELSE FirstDecoding(payload, schemas, k + 1)

\* C7: unpack of a message whose id has several schemas returns the data
\* decoded by the first schema, in list order, that parses without raising.
C7_FirstDecodingWins ==
    (cPc = "unpacked" /\ cOut.messageId \in DOMAIN JSON_SCHEMES
        /\ Len(JSON_SCHEMES[cOut.messageId]) > 1)
    => LET first == FirstDecoding(cMsg.payload, JSON_SCHEMES[cOut.messageId], 1)
       IN cOut.hasData = first.found /\ (first.found => cOut.data = first.obj)

\* C8: for an id with two or more schemas, pack encodes the data with the
\* schema whose title is the frame's messageName and with no other; without
\* such a schema it returns False and the payload stays empty.
C8_PackSelectsByName ==
    (cPc = "packed" /\ cFrame.messageId \in DOMAIN JSON_SCHEMES
        /\ Len(JSON_SCHEMES[cFrame.messageId]) > 1)
    => /\ \A S \in NamedSchemas(cFrame) :
             /\ cOk = ~AddProperties(cFrame.data, <<>>, S).err
             /\ cMsg.payload = AddProperties(cFrame.data, <<>>, S).payload
       /\ NamedSchemas(cFrame) = {} => ~cOk /\ cMsg.payload = <<>>

\* a frame named after the second schema of its id is encoded by that schema
C8_Witness ==
    /\ cPc = "packed" /\ cOk
    /\ cFrame.messageId = Id0d01 /\ cFrame.messageName = "SetPair"
    /\ "messageName" \in cFrame.has
    /\ cMsg.payload = <<1, 2>>

\* C9: packing an integer outside the range of its jausType emits the
\* nearest endpoint of the range: for every integer jausType and input the
\* packing succeeds and the bytes are those of clip(input, min, max).
C9_Saturation ==
    (cPc = "packed" /\ cFrame \in NumberFrames)
    => LET jausType == PropOf(PropOf(JSON_SCHEMES[cFrame.messageId][1], "Rec"),
                              "Value").jausType
           n == cFrame.data.o.Rec.o.Value.i
       IN /\ cOk
          /\ cMsg.payload = LEBytes(Clip(jausType, n), Len(cMsg.payload))
          /\ cMsg.payload # <<>>

\* the presence bits and the byte count of a PoseRec with the optional
\* properties `present': bit 0 is X, bit 1 Mode, bit 2 Yaw; the vector and
\* TimeStamp are always there
PoseBits(present) ==
    (IF "X" \in present THEN 1 ELSE 0) + (IF "Mode" \in present THEN 2 ELSE 0)
    + (IF "Yaw" \in present THEN 4 ELSE 0)
PoseWidth(present) ==
    JAUS_TYPES["unsigned byte"]
    + (IF "X" \in present THEN JAUS_TYPES["unsigned short integer"] ELSE 0)
    + (IF "Mode" \in present THEN JAUS_TYPES["unsigned byte"] ELSE 0)
    + (IF "Yaw" \in present THEN JAUS_TYPES["byte"] ELSE 0)
    + JAUS_TYPES["unsigned byte"]

\* C10: an object with a presence vector is encoded with a zero bit and no
\* bytes for every omitted optional property: the payload is shorter than
\* the all-present payload by the widths of the omitted properties.
C10_OmittedEmitNothing ==
    (cPc = "packed" /\ cFrame \in PoseFrames)
    => LET present == DOMAIN cFrame.data.o.PoseRec.o \cap PoseOptional
       IN /\ cOk
          /\ Len(cMsg.payload) = PoseWidth(present)
          /\ cMsg.payload[1] = PoseBits(present)

\* the value lacks a property that the schema node, or a node nested in it,
\* names in its required list
RECURSIVE MissingRequired(_, _)
MissingRequired(v, node) ==
    /\ node.type = "object" /\ IsObj(v)
    /\ \E name \in PropNamesSet(node) \ {"presenceVector"} :
          IF name \in DOMAIN v.o THEN MissingRequired(v.o[name], PropOf(node, name))
          ELSE name \in node.required

\* C11: pack returns False whenever the data of the frame lacks a property
\* that the schema names as required, at any depth.
C11_MissingRequiredRefused ==
    (cPc = "packed" /\ Cardinality(SchemasOf(cFrame)) = 1)
    => \A S \in SchemasOf(cFrame) : MissingRequired(cFrame.data, S) => ~cOk

(***************************************************************************)
(* Properties of the bridge: frames that fail, the queue, the loops.       *)
(***************************************************************************)
\* C12: a frame for which pack returns False is dropped: handle puts no data
\* message on the send queue for it and the client stays connected, so that
\* its later frames are handled.
C12_FailedFrameDropped ==
    [][\A c \in Clients, frame \in BridgeFrames :
          (Handle(c, frame) /\ udpSocket # None /\ ~FromString(frame.jausIdSrc).err
              /\ ~FramePack(frame).ok)
          => /\ EnqueuedWith(0) = {}
             /\ clients' = clients]_vars

\* a client sent a frame of an unknown id from 1.1.1 (only the CONNECT was
\* queued) and then a frame from 1.1.2, whose data message is queued
C12_Witness ==
    /\ sendLog = <<>> /\ sMsg = NoMsg /\ Len(queue) = 3
    /\ queue[1].cmd_code = CODE_CONNECT /\ queue[1].src_id = <<1, 1, 1>>
    /\ queue[2].cmd_code = CODE_CONNECT /\ queue[2].src_id = <<1, 1, 2>>
    /\ queue[3].cmd_code = 0 /\ queue[3].src_id = <<1, 1, 2>>
    /\ \E c \in Clients : framesFrom[c] = {<<1, 1, 1>>, <<1, 1, 2>>}

(***************************************************************************)
(* Further properties of the codec.                                        *)
(***************************************************************************)
\* the value gives every property of the schema node, optional ones included
RECURSIVE AllPresent(_, _)
AllPresent(v, node) ==
    node.type = "object"
    => /\ IsObj(v)
       /\ \A name \in PropNamesSet(node) \ {"presenceVector"} :
             name \in DOMAIN v.o /\ AllPresent(v.o[name], PropOf(node, name))

\* the bytes a schema node implies for a conforming value: the width of the
\* jausType of a number, an enumeration, a message id, a presence vector or
\* a count field, the characters of a string, nothing for an omitted
\* optional property
RECURSIVE FieldWidth(_, _)
RECURSIVE FieldWidthFrom(_, _, _)
FieldWidth(v, node) ==
    CASE node.type = "object" -> FieldWidthFrom(v, node, 1)
      [] node.type = "string" /\ Has(node, "minLength") /\ ~Has(node, "enum") ->
            IF node.minLength = node.maxLength THEN node.maxLength
            ELSE JAUS_TYPES[node.jausType] + Len(v.s)
      [] OTHER -> JAUS_TYPES[node.jausType]
FieldWidthFrom(v, node, k) ==
    IF k > Len(node.properties) THEN 0
    ELSE (IF node.properties[k].name = "presenceVector"
          THEN JAUS_TYPES[node.properties[k].jausType]
          ELSE IF node.properties[k].name \in DOMAIN v.o
          THEN FieldWidth(v.o[node.properties[k].name], node.properties[k])
          ELSE 0)
         + FieldWidthFrom(v, node, k + 1)

\* C13: for a conforming value that gives every property of its schema and
\* that pack accepts, the payload has as many bytes as the widths of the
\* schema's fields add up to, and decoding the payload with the schema ends
\* without error exactly at the end of the payload.
C13_BitExact ==
    (cPc = "packed" /\ cOk /\ Cardinality(SchemasOf(cFrame)) = 1)
    => \A S \in SchemasOf(cFrame) :
          (Conforms(cFrame.data, S) /\ AllPresent(cFrame.data, S))
          => /\ Len(cMsg.payload) = FieldWidth(cFrame.data, S)
             /\ ~GetProperties(EmptyObj, cMsg.payload, 0, FALSE, S).err
             /\ GetProperties(EmptyObj, cMsg.payload, 0, FALSE, S).index
                    = Len(cMsg.payload)

\* C14: the members of a bit field are folded into one accumulator, each
\* shifted left by the first bit of its range: the bit field of Lo (bits
\* 0..3) and Hi (bits 4..5) is encoded as the one byte Lo + 16 * Hi, and
\* decoding gives Lo and Hi back.
C14_BitFieldFold ==
    (cPc = "unpacked" /\ cFrame \in BitsFrames)
    => LET Folded(lo, hi) ==
               /\ cOk /\ cMsg.payload = <<lo + 16 * hi>>
               /\ cOut.hasData
               /\ cOut.data.o.Rec.o.Bits.o.Lo = [i |-> lo]
               /\ cOut.data.o.Rec.o.Bits.o.Hi = [i |-> hi]
       IN Folded(cFrame.data.o.Rec.o.Bits.o.Lo.i, cFrame.data.o.Rec.o.Bits.o.Hi.i)

\* C15: unpack of a message whose id is no key of the registry returns the
\* skeleton (messageId, jausIdDst and jausIdSrc, no data); pack of a frame
\* whose messageId is no key of the registry returns False and leaves the
\* payload of the message empty.
C15_UnknownMessageId ==
    /\ (cPc = "unpacked" /\ cOut.messageId \notin DOMAIN JSON_SCHEMES)
       => /\ ~cOut.hasData /\ cOut.data = EmptyObj
          /\ Len(cOut.messageId) >= 4
          /\ HexValue(cOut.messageId) = cMsg.msg_id.i
          /\ cOut.jausIdDst = JausId(cMsg.dst_id)
          /\ cOut.jausIdSrc = JausId(cMsg.src_id)
    /\ (cPc \in {"packed", "unpacked"} /\ cFrame # NoFrame
           /\ cFrame.messageId \notin DOMAIN JSON_SCHEMES)
       => ~cOk /\ cMsg.payload = <<>>

\* a frame of the unregistered id ffff was refused by pack, and unpack of a
\* message of that id gave the skeleton
C15_Witness ==
    /\ cPc = "unpacked" /\ cFrame \in UnknownFrames /\ ~cOk
    /\ cOut.messageId = IdNone /\ ~cOut.hasData

(***************************************************************************)
(* Properties of the start-up.                                             *)
(***************************************************************************)
\* C16: no task that reads the schema registry runs before the serializer
\* exists and the registry is loaded: every message the receive loop
\* dispatches to route_udp_msg finds the serializer in place.
C16_SerializerBeforeReaders ==
    [][\A msg \in IncomingMessages \cup ReceivedMessages :
          Recv(msg) => msgSerializer # None]_vars

\* C17: the broadcast of route_udp_msg is not disturbed by connects and
\* closes: when its loop over the clients ends, every client that was in the
\* list when the loop began and is still in it has been sent the frame.
C17_BroadcastReachesAll ==
    [][(Route /\ bIdx >= Len(clients))
       => \A c \in Clients :
             (InList(c, bStart) /\ InList(c, clients))
             => \E k \in 1..Len(wsOut[c]) : "messageId" \in DOMAIN wsOut[c][k]]_vars

\* C18: the send queue never holds more messages than the bound it was
\* created with (the queue_length Server.start passes to the socket).
C18_QueueBounded == Len(queue) <= queue_length

\* C19: once close() has run on the UDP socket, the send loop and the
\* receive loop both come to an end (by leaving the loop or by an error
\* that ends the thread), wherever they stood when close() ran.
C19_LoopsExitAfterClose ==
    closed ~> (sPc \in {"exit", "dead"} /\ rPc \in {"exit", "dead"})

\* close() has run while the sender held a message it had got from the
\* queue and the receive loop was sending a received message to the clients
C19_Witness ==
    /\ closed
    /\ sPc = "got" /\ sMsg # NoMsg
    /\ rPc = "route" /\ bIdx < Len(clients)

\* C20: every message on the send queue, in the sender's hand or already
\* sent is either a data message, with cmd_code = 0, or a connection
\* management message, with msg_id = 0 and cmd_code CONNECT or CANCEL; so
\* none has a nonzero msg_id together with a nonzero cmd_code.
C20_DataOrManagement ==
    LET IdZero(m) == "i" \in DOMAIN m.msg_id /\ m.msg_id.i = 0
        Kind(m) == \/ m.cmd_code = 0
                   \/ IdZero(m) /\ m.cmd_code \in {CODE_CONNECT, CODE_CANCEL}
    IN /\ \A k \in 1..Len(queue) : Kind(queue[k])
       /\ sMsg # NoMsg => Kind(sMsg)
       /\ \A k \in 1..Len(sendLog) : Kind(sendLog[k].msg)

\* the queue holds a CONNECT, a data message and a CANCEL
C20_Witness ==
    /\ \E k \in 1..Len(queue) : queue[k].cmd_code = CODE_CONNECT
    /\ \E k \in 1..Len(queue) : queue[k].cmd_code = 0 /\ "s" \in DOMAIN queue[k].msg_id
    /\ \E k \in 1..Len(queue) : queue[k].cmd_code = CODE_CANCEL

(***************************************************************************)
(* Properties of the bridge: the order of the messages put on the queue,   *)
(* the outcome of a send, the handshake.                                   *)
(***************************************************************************)
\* the messages put on the send queue so far, in the order of the puts,
\* while the socket is open: those sent, the one in the sender's hand and
\* those waiting (close() discards the latter two, and after it no handler
\* puts anything)
PutSoFar ==
    [k \in 1..Len(sendLog) |-> sendLog[k].msg]
    \o (IF sMsg = NoMsg THEN <<>> ELSE <<sMsg>>) \o queue

\* C21: every data message put on the send queue for a source address a
\* comes after a CONNECT put for a, with no CANCEL for a between the two:
\* the first frame of a new source puts the CONNECT first and the data
\* message second, and after a CANCEL for a the next data message of a is
\* preceded by a new CONNECT.
C21_ConnectBeforeData ==
    ~closed
    => \A k \in 1..Len(PutSoFar) :
          PutSoFar[k].cmd_code = 0
          => \E j \in 1..(k - 1) :
                /\ PutSoFar[j].cmd_code = CODE_CONNECT
                /\ PutSoFar[j].src_id = PutSoFar[k].src_id
                /\ \A i \in (j + 1)..(k - 1) :
                      ~(PutSoFar[i].cmd_code = CODE_CANCEL
                        /\ PutSoFar[i].src_id = PutSoFar[k].src_id)

\* CONNECT, data, CANCEL, CONNECT, data were put for the address 1.1.1
C21_Witness ==
    /\ ~closed /\ Len(PutSoFar) = 5
    /\ \A k \in 1..5 : PutSoFar[k].src_id = <<1, 1, 1>>
    /\ [k \in 1..5 |-> PutSoFar[k].cmd_code]
           = <<CODE_CONNECT, 0, CODE_CANCEL, CODE_CONNECT, 0>>

\* C22: a send that failed with ENETDOWN, ENETUNREACH, ENETRESET or -5
\* leaves the sender in its loop, and unless the socket is closed the loop
\* goes on to take the message queued behind the failed one for its next
\* sendto; a send that failed with EINVAL is re-raised and ends the loop.
C22_ErrnoClasses ==
    /\ [](/\ sErr \in {"ENETDOWN", "ENETUNREACH", "ENETRESET", "-5"} => sPc = "top"
          /\ sErr = "EINVAL" => sPc = "dead")
    /\ (sErr \in {"ENETDOWN", "ENETUNREACH", "ENETRESET", "-5"} /\ queue # <<>>)
       ~> (closed \/ (sPc = "got" /\ sMsg # NoMsg /\ Destination(sMsg) # None))

\* a send has just failed with errno -5 while another message is queued
C22_Witness ==
    /\ sErr = "-5" /\ sPc = "top" /\ ~closed
    /\ sendLog # <<>> /\ queue # <<>>

\* C23: a send error that _sendto re-raises (EINVAL, -2, or an errno such as
\* EBADF of a socket closed meanwhile) ends the sender thread; from then on
\* the thread stays ended and sendto is never called again, while a frame
\* handled afterwards still puts its data message on the queue.
C23_RaisedErrorEndsSender ==
    /\ [](sErr \in {"EINVAL", "-2", "EBADF"} => sPc = "dead")
    /\ [][sPc = "dead" => (sPc' = "dead" /\ sendLog' = sendLog)]_vars
    /\ [][\A c \in Clients, frame \in BridgeFrames :
             (/\ Handle(c, frame) /\ sPc = "dead" /\ udpSocket # None
              /\ ~FromString(frame.jausIdSrc).err /\ FramePack(frame).ok)
             => /\ Len(queue') > Len(queue)
                /\ queue'[Len(queue')].cmd_code = 0]_vars

\* the sender ended with EBADF on its first send; the data message queued
\* behind it and the CONNECT and data message of another source stay queued
C23_Witness ==
    /\ sPc = "dead" /\ sErr = "EBADF" /\ ~closed
    /\ Len(sendLog) = 1 /\ Len(queue) = 3
    /\ queue[1].src_id # queue[3].src_id

\* C24: an exception of route_udp_msg that is neither queue.Full nor
\* socket.error (here the AttributeError of a serializer that is not there)
\* ends the receive thread: the thread stays ended, and with it nothing more
\* is dispatched or sent to a client, whatever arrives afterwards.
C24_RouteErrorEndsReceiver ==
    /\ [][\A msg \in IncomingMessages \cup ReceivedMessages :
             (Recv(msg) /\ msgSerializer = None) => rPc' = "dead"]_vars
    /\ [][rPc = "dead"
          => (rPc' = "dead" /\ dispatched' = dispatched /\ wsOut' = wsOut)]_vars

\* the receive thread has ended on its first message while the socket is
\* open and more datagrams may arrive
C24_Witness ==
    /\ rPc = "dead" /\ ~closed
    /\ Len(dispatched) = 1 /\ nRecv < MaxRecvLive

\* C25: the sender loop sends a message it got to the message's own
\* tinfo_dst when that is set, otherwise to the default_dst of the socket
\* when there is one; a message with neither is not sent, and the sequence
\* counter stays as it was.
C25_DestinationResolution ==
    [][\A outcome \in SendOutcomes :
          (SendMsg(outcome) /\ ~closed /\ sMsg # NoMsg)
          => LET SentTo(dst) ==
                     /\ Len(sendLog') = Len(sendLog) + 1
                     /\ sendLog'[Len(sendLog')].dst = dst
                     /\ sendLog'[Len(sendLog')].msg.seqnr = seqNr
                     /\ seqNr'.lo = (seqNr.lo + 1) % 65536
                     /\ seqNr'.hi = seqNr.hi + ((seqNr.lo + 1) \div 65536)
             IN IF sMsg.tinfo_dst # None THEN SentTo(sMsg.tinfo_dst)
                ELSE IF default_dst # None THEN SentTo(default_dst)
                ELSE sendLog' = sendLog /\ seqNr' = seqNr]_vars

\* on a socket with a default destination, one message went to its own
\* endpoint and the next to the default
C25_Witness ==
    /\ default_dst = "nm" /\ Len(sendLog) = 2
    /\ sendLog[1].dst = "peer" /\ sendLog[2].dst = "nm"

\* C26: nmConnected is true exactly when an ACCEPT or a CANCEL has been
\* received and the latest of them was an ACCEPT (before the first of them
\* the socket has no such attribute, which is read here as not true); a
\* received CANCEL takes its src_id out of the address book; any other
\* received message leaves nmConnected and the address book as they were.
C26_Handshake ==
    /\ [](LET hs == {k \in 1..Len(dispatched) :
                       dispatched[k].cmd_code \in {CODE_ACCEPT, CODE_CANCEL}}
          IN nmConnected = "true"
             <=> \E k \in hs : /\ dispatched[k].cmd_code = CODE_ACCEPT
                               /\ \A j \in hs : j <= k)
    /\ [][\A msg \in IncomingMessages \cup {ConnectMessage(<<9, 9, 9>>)} :
             Recv(msg)
             => /\ msg.cmd_code = CODE_ACCEPT => nmConnected' = "true"
                /\ msg.cmd_code = CODE_CANCEL
                   => /\ nmConnected' = "false"
                      /\ address_book' = address_book \ {msg.src_id}
                /\ msg.cmd_code \notin {CODE_ACCEPT, CODE_CANCEL}
                   => nmConnected' = nmConnected
                /\ msg.cmd_code # CODE_CANCEL => address_book' = address_book]_vars

\* an ACCEPT and then a CANCEL of 1.1.1 were received: the handshake is
\* undone and the address book has lost 1.1.1 and kept 9.9.9
C26_Witness ==
    /\ Len(dispatched) = 2
    /\ dispatched[1].cmd_code = CODE_ACCEPT /\ dispatched[2].cmd_code = CODE_CANCEL
    /\ nmConnected = "false" /\ address_book = {<<9, 9, 9>>}

\* C27: whatever the handshake state, a frame that packs puts its data
\* message on the queue (behind the CONNECT, if its source is new), and the
\* sender loop hands every message it got from the queue of an open socket
\* to sendto: neither waits for an ACCEPT, neither stops after a CANCEL.
C27_NoHandshakeWait ==
    /\ [][\A c \in Clients, frame \in BridgeFrames :
             (/\ Handle(c, frame) /\ udpSocket # None
              /\ ~FromString(frame.jausIdSrc).err /\ FramePack(frame).ok)
             => /\ Enqueued # <<>>
                /\ Enqueued[Len(Enqueued)].cmd_code = 0
                /\ \A k \in 1..(Len(Enqueued) - 1) :
                      Enqueued[k].cmd_code = CODE_CONNECT]_vars
    /\ [][\A outcome \in SendOutcomes :
             (SendMsg(outcome) /\ ~closed /\ sMsg # NoMsg)
             => /\ Len(sendLog') = Len(sendLog) + 1
                /\ sendLog'[Len(sendLog')].msg.src_id = sMsg.src_id
                /\ sendLog'[Len(sendLog')].msg.cmd_code = sMsg.cmd_code]_vars

\* the one message ever received is a CANCEL, so that no ACCEPT ever came
\* and nmConnected is false; a CONNECT and a data message have been sent
\* and a further data message is in the sender's hand on the open socket
C27_Witness ==
    /\ nmConnected = "false" /\ ~closed
    /\ Len(dispatched) = 1 /\ dispatched[1].cmd_code = CODE_CANCEL
    /\ Len(sendLog) >= 2
    /\ sendLog[1].msg.cmd_code = CODE_CONNECT /\ sendLog[2].msg.cmd_code = 0
    /\ sPc = "got" /\ sMsg # NoMsg /\ sMsg.cmd_code = 0

\* C28: of the messages put on the send queue for an address a, the
\* CONNECTs and CANCELs alternate, beginning with a CONNECT: so there are
\* never more CANCELs than CONNECTs for a, and between two CONNECTs for a
\* there is a CANCEL for a.
C28_ConnectCancelAlternate ==
    ~closed
    => \A a \in {PutSoFar[k].src_id : k \in 1..Len(PutSoFar)} :
          LET Is(k, code) == PutSoFar[k].src_id = a /\ PutSoFar[k].cmd_code = code
              Count(code) == Cardinality({k \in 1..Len(PutSoFar) : Is(k, code)})
          IN /\ Count(CODE_CANCEL) <= Count(CODE_CONNECT)
             /\ \A i, j \in 1..Len(PutSoFar) :
                   (i < j /\ Is(i, CODE_CONNECT) /\ Is(j, CODE_CONNECT))
                   => \E k \in (i + 1)..(j - 1) : Is(k, CODE_CANCEL)
             /\ \A j \in 1..Len(PutSoFar) :
                   Is(j, CODE_CANCEL)
                   => /\ \E i \in 1..(j - 1) : Is(i, CODE_CONNECT)
                      /\ \A i \in 1..(j - 1) :
                            Is(i, CODE_CANCEL)
                            => \E k \in (i + 1)..(j - 1) : Is(k, CODE_CONNECT)

\* a CONNECT, a CANCEL and a second CONNECT were put for 1.1.1, and both
\* clients have connected
C28_Witness ==
    /\ ~closed /\ opened = Clients
    /\ \E i, j, k \in 1..Len(PutSoFar) :
          /\ i < j /\ j < k
          /\ PutSoFar[i].src_id = <<1, 1, 1>> /\ PutSoFar[i].cmd_code = CODE_CONNECT
          /\ PutSoFar[j].src_id = <<1, 1, 1>> /\ PutSoFar[j].cmd_code = CODE_CANCEL
          /\ PutSoFar[k].src_id = <<1, 1, 1>> /\ PutSoFar[k].cmd_code = CODE_CONNECT

\* C29: when route_udp_msg has gone through the clients, every client that
\* was connected when the message was dispatched and still is holds exactly
\* one frame of that message.
C29_OneFramePerClient ==
    [][(Route /\ bIdx >= Len(clients))
       => \A c \in Clients :
             (InList(c, bStart) /\ InList(c, clients))
             => Cardinality({k \in 1..Len(wsOut[c]) : wsOut[c][k] = jsonObj}) = 1]_vars


\* C30: once close() has set the closed flag no datagram is transmitted:
\* every sendto that runs afterwards fails, and what is still queued or is
\* queued afterwards is never sent.
C30_NothingSentAfterClose ==
    [][(closed /\ sendLog' # sendLog) => sErr' # None]_vars

\* the nested value of a frame of Wrapped or WrappedTail, the candidate
\* schemas of its payloadMessageId, and the candidates that encode its payload
MsgOf(frame) == frame.data.o.Rec.o.Msg.o
CandidatesOf(frame) ==
    IF MsgOf(frame).payloadMessageId.s \in DOMAIN JSON_SCHEMES
    THEN JSON_SCHEMES[MsgOf(frame).payloadMessageId.s] ELSE <<>>
Encodes(frame, k) == ~AddProperties(MsgOf(frame).payload, <<>>, CandidatesOf(frame)[k]).err
FirstEncoding(frame) ==
    LET k == CHOOSE k \in 1..Len(CandidatesOf(frame)) :
                 Encodes(frame, k) /\ \A j \in 1..(k - 1) : ~Encodes(frame, j)
    IN AddProperties(MsgOf(frame).payload, <<>>, CandidatesOf(frame)[k]).payload

\* C31: a nested JAUS MESSAGE is encoded as one size and one payload, those
\* of the first candidate schema that encodes it; later candidates add
\* nothing, and the property declared after it is encoded after them.
C31_NestedEncodedOnce ==
    (cPc = "packed" /\ cFrame \in NestedFrames
        /\ \E k \in 1..Len(CandidatesOf(cFrame)) : Encodes(cFrame, k))
    => /\ cOk
       /\ cMsg.payload = LEBytes(HexValue(cFrame.messageId), 2)
                         \o <<Len(FirstEncoding(cFrame))>> \o FirstEncoding(cFrame)
                         \o (IF cFrame.messageId = Id3a01 THEN <<7>> ELSE <<>>)

\* C32: pack of a message whose nested payload no candidate schema encodes
\* returns False: such a message is never reported as packed.
C32_NestedFailureFails ==
    (cPc = "packed" /\ cFrame \in NestedFrames
        /\ \A k \in 1..Len(CandidatesOf(cFrame)) : ~Encodes(cFrame, k))
    => ~cOk

\* a received message of Wrapped or WrappedTail: the size of its nested
\* payload, the nested bytes, the id they begin with, and that id's key
InnerSize(msg) == msg.payload[3]
InnerBytes(msg) == SubSeq(msg.payload, 4, 3 + InnerSize(msg))
InnerKey(msg) == ZFill(FormatHex(InnerBytes(msg)[1] + 256 * InnerBytes(msg)[2]), 4)
Walk(msg) ==
    GetProperties(EmptyObj, msg.payload, 0, FALSE, JSON_SCHEMES[cOut.messageId][1])

\* C33: a nested JAUS MESSAGE of size >= 2 whose id is registered decodes to
\* payloadMessageId, the registry key of that id, and payload, the decoding
\* of the nested bytes; the properties declared after it are decoded too and
\* the walk returns the offset behind the last byte.
C33_NestedDecoded ==
    (cPc = "unpacked" /\ cMsg \in ReceivedNested /\ InnerSize(cMsg) >= 2
        /\ InnerKey(cMsg) \in DOMAIN JSON_SCHEMES)
    => /\ cOut.hasData
       /\ HasAttr(cOut.data, "Rec") /\ HasAttr(cOut.data.o.Rec, "Msg")
       /\ LET Msg == cOut.data.o.Rec.o.Msg
          IN /\ HasAttr(Msg, "payloadMessageId") /\ HasAttr(Msg, "payload")
             /\ Msg.o.payloadMessageId = [s |-> InnerKey(cMsg)]
             /\ Msg.o.payload =
                    FirstDecoding(InnerBytes(cMsg), JSON_SCHEMES[InnerKey(cMsg)], 1).obj
       /\ cOut.messageId = Id3a01 => HasAttr(cOut.data.o.Rec, "Tail")
       /\ ~Walk(cMsg).none /\ Walk(cMsg).index = Len(cMsg.payload)

\* C34: a bit field is encoded as one integer of the width of its bitField
\* type; its number members, which have a bitRange, add no bytes of their own.
C34_BitFieldOneInteger ==
    (cPc = "packed" /\ cFrame \in BitsFrames)
    => /\ cOk
       /\ Len(cMsg.payload)
              = JAUS_TYPES[PropOf(PropOf(SetBits, "Rec"), "Bits").bitField]

\* C35: a string s of variable length is encoded as its length prefix, which
\* holds maxLength, followed by the first min(len(s), maxLength) bytes of s:
\* the payload of ReportIdentification ends with them.
C35_VariableString ==
    (cPc = "packed" /\ cFrame \in ReportFrames
        /\ HasAttr(cFrame.data.o.ReportIdentificationRec, "Identification"))
    => LET property == PropOf(PropOf(ReportIdentification, "ReportIdentificationRec"),
                              "Identification")
           s == cFrame.data.o.ReportIdentificationRec.o.Identification.s
           n == IF Len(s) > property.maxLength THEN property.maxLength ELSE Len(s)
       IN /\ cOk
          /\ Len(cMsg.payload) = 5 + JAUS_TYPES[property.jausType] + n
          /\ SubSeq(cMsg.payload, 6, Len(cMsg.payload))
                 = LEBytes(property.maxLength, JAUS_TYPES[property.jausType])
                   \o SubSeq(s, 1, n)

\* C36: while the bridge has its socket, a frame whose jausIdSrc is new to
\* the client and whose pack fails still records the address and enqueues
\* its CONNECT and nothing else; a frame without jausIdSrc or with a
\* malformed one leaves the addresses and the queue as they are.
C36_DroppedFrameStillConnects ==
    [][\A c \in Clients, frame \in BridgeFrames :
          (Handle(c, frame) /\ udpSocket # None)
          => LET jAddr == FromString(frame.jausIdSrc)
             IN IF "jausIdSrc" \notin frame.has \/ jAddr.err
                THEN jausAddresses' = jausAddresses /\ queue' = queue
                ELSE (jAddr.addr \notin framesFrom[c] /\ ~FramePack(frame).ok)
                     => /\ InList(jAddr.addr, jausAddresses')
                        /\ Enqueued = <<ConnectMessage(jAddr.addr)>>]_vars

\* C37: the sequence counter of a socket wraps at 2^32: every seqnr given to
\* a message lies in 0 .. 2^32 - 1, and the send after the one numbered
\* 2^32 - 1 is numbered 0.
C37_SeqNrWraps ==
    [][sendLog' # sendLog
       => /\ sendLog'[Len(sendLog')].msg.seqnr.hi < 65536
          /\ seqNr = [hi |-> 65535, lo |-> 65535] => seqNr' = Num(0)]_vars

=============================================================================
